---- MODULE Spec2Model ----
(***************************************************************************)
(* A model of the paper-plane synchronisation core (ChatLib/chat-arch):    *)
(* the per-peer log store (repository.rs, repository_manager.rs,           *)
(* message_database.rs), the inbound RPC dispatch and the outbound tasks   *)
(* of the sync engine (sync_engine.rs) and the peer pool (peer_pool.rs,    *)
(* dialer.rs), the file resolver (file_resolver.rs, indexer.rs,            *)
(* file_database.rs), the request queue (request_queue.rs) and the         *)
(* connection layer (handshake.rs, conn.rs).                               *)
(*                                                                         *)
(* The module holds several specifications over one set of variables; a    *)
(* specification leaves the variables of the other subsystems untouched.   *)
(*   SpecLog      one node's log store under local appends and inbound     *)
(*                Messages requests from arbitrary remotes, with store     *)
(*                faults                                                   *)
(*   SpecContent  the same, the remotes sending entries of two contents    *)
(*   SpecIdent    the same, the remotes attaching identity records         *)
(*   SpecCompare  the CompareRequest handler on every small callee state   *)
(*   SpecPool     the peer pool under get calls, inbound accepts, dial     *)
(*                outcomes and session deaths                              *)
(*   SpecSync     two nodes that author, connect and then replicate by     *)
(*                periodic sweeps, with fair scheduler and workers         *)
(*   SpecBatch    the BatchMessageRequest handler on every small callee    *)
(*                state                                                    *)
(*   SpecResolve  the file resolver with its FileTasks, FileWantTasks,     *)
(*                back-off timers and the index loop, all fair             *)
(*   SpecBroadcast the log store on a node whose sessions die              *)
(*   SpecTask     own appends and the MessageTasks they enqueue            *)
(*   SpecWant     the FileWantRequest handler on every small catalog       *)
(*   SpecUpload   upload_file on every small file                          *)
(*   SpecQueue    the request queue and its worker loops                   *)
(*   SpecCancel   the file resolver with every peer reachable and a worker *)
(*                timeout that can cancel a FileTask                       *)
(*   SpecSched    the periodic task scheduler                              *)
(*   SpecShake    one handshake of a dialer and an acceptor over a stream  *)
(*                whose bytes can be altered in transit                    *)
(*   SpecStream   one direction of an encrypted stream, its frames         *)
(*                alterable in transit                                     *)
(*   SpecStartup  a node started on a persisted store, then own appends    *)
(***************************************************************************)
EXTENDS Integers, Sequences, FiniteSets, TLC

----------------------------------------------------------------------------
(* Bounds of the model and small input domains.                            *)

\* highest counter a wire entry carries / an own append reaches
MaxCounter == 2
\* longest batch of a Messages request
MaxBatch == 2
\* number of add_own_message calls started in one behaviour
MaxOwn == 2
\* number of store operations that fail in one behaviour
MaxFaults == 1
\* number of concurrent PeerPool::get calls
MaxCalls == 2
\* number of sessions created in one behaviour
MaxSessions == 2
\* longest compare_payload of a CompareRequest
MaxPayload == 2
\* number of tasks in a request queue above which the sweep does not enqueue
MaxQueue == 2
\* number of external add_need_resolve calls in one behaviour
MaxMarks == 1
\* number of ResolveWant items in the channel above which an advertisement
\* or an external call waits
MaxWants == 2
\* number of indexed rows that reference a file
MaxRows == 1
\* longest id list of a FileWantRequest
MaxIds == 2
\* longest file of a FileDownloadRequest, in bytes
MaxFile == 3
\* length of the read buffer of upload_file (8192 in the program), in bytes
BufferLen == 2
\* number of tasks enqueued on the request queue in one behaviour
MaxTasks == 4
\* ticks of the scheduler's interval that can be due at one time
MaxDue == 2
\* alterations of bytes in transit during one handshake
MaxAlters == 3
\* writes on one direction of an encrypted stream
MaxWrites == 2
\* invocations of the scheduler's action in one behaviour
MaxRuns == 4
\* concurrent callers of Peer::open_stream on one session
OpenerCount == 2
\* open_stream calls in one behaviour
MaxOpens == 3
\* inbound streams a session delivers in one behaviour
MaxStreams == 2
\* peers a FileTask carries in peer_ids
TaskPeers == 2
\* data frames one download attempt reads
MaxChunks == 2
\* operations called on one RepositoryManager in one behaviour
ManagerOps == 3
\* frames the peer writes before its transport ends
MaxFrames == 2
\* poll_read calls on one stream
MaxReads == 3
\* iterations of the loop of poll_read that are followed while the
\* transport returns no byte
MaxSpins == 2
\* worker_count: the number of worker loops (10 in the program)
WorkerCount == 2

\* authoring peers; Me is SyncEngine.id, the local identity
Peers == {"A", "B"}
Me == "A"
\* the remote peer ids of the address book, and the long-term keys a remote
\* can prove in the handshake (a peer id is the hex of a verifying key)
PoolPeers == {"B", "C"}
Keys == {"B", "C"}
\* (order, payload) carried by a wire entry
Contents == {[order |-> 1, payload |-> "x"], [order |-> 2, payload |-> "y"]}
OwnPayloads == {"x"}
\* file ids, the remote peers of the resolver, the peers that hold each file
\* in their catalog, and the peers whose session can die
Files == {"F"}
FilePeers == {"P1", "P2"}
Holders == [f \in Files |-> FilePeers]
Mortal == {"P1"}
\* the file ids a FileWantRequest can name
WantIds == {"F", "G", "H"}
\* the values of a byte of a file
Bytes == {0, 1}

VARIABLES
    db,           \* messages table: rows in insertion order
    cur_counter,  \* Repository.cur_counter of each peer's repository
    cnt,          \* RepositoryManager.counter_lock: the global order counter
    pending,      \* add_own_message calls between drop(cnt) and save_message
    assigned,     \* orders handed out by add_own_message, in assignment order
    peer_db,      \* peers table: peer id -> identity row or NoPeer
    indexed,      \* indexed_messages rows
    events,       \* number of Message events emitted
    tasks,        \* MessageTasks enqueued on the request queue
    faults,       \* store faults injected so far
    stream,       \* the inbound stream being served: its request, then its reply
    outgoing,     \* PeerPool.outgoing: pairs <<peer id, session>>
    incoming,     \* PeerPool.incoming: pairs <<peer id, session>>
    sessions,     \* every session created so far: the key the remote proved
                  \* in the handshake, the table it was stored in, is_alive
    lock,         \* PeerPool.locks: the get call holding the lock of a peer id
    calls,        \* the get calls: position, peer id, result
    dials,        \* number of dials started for each peer id
    dial_fails,   \* number of dials that failed for each peer id
    ndb,          \* two nodes: the messages table of each node
    ncur,         \* two nodes: cur_counter of each node's repositories
    ncnt,         \* two nodes: the global order counter of each node
    nids,         \* two nodes: the peer ids whose identity row a node holds
    queue,        \* two nodes: the request queue of each node
    connected,    \* two nodes: whether the nodes can exchange RPCs
    need_resolve, \* ResolverData.need_resolve: the file ids wanted
    peers_have,   \* ResolverData.peers_have: file id -> advertising peers
    to_resolve,   \* the channel of ResolveWant items
    to_index,     \* the channel of ResolveResult items
    file_db,      \* files table: the descriptors of the local catalog
    file_tasks,   \* FileTasks enqueued or running on the request queue
    want_tasks,   \* FileWantTasks enqueued on the request queue
    timers,       \* back-off timers armed and not yet fired, per file id
    up,           \* the remote peers that can be reached
    file_rows,    \* indexed_messages rows that reference a file
    file_events,  \* Message events emitted for those rows: <<row, path>>
    index_pending,\* index_message calls between process_message and save
    marks,        \* number of external add_need_resolve calls so far
    dropped,      \* files whose FileTask was cancelled by the 30 s timeout
    sent,         \* the Messages requests written by MessageTasks
    rq,           \* RequestQueue: the tasks in the channel, oldest first
    workers,      \* the task each worker_loop is running, 0 when it waits
    ran,          \* number of times each enqueued task was started
    ended,        \* how each run of a task ended
    sched,        \* PeriodicTaskScheduler: its loop, the ticks due, the invocations
    hs,           \* one handshake: the dialer, the acceptor and the bytes in transit
    es,           \* one direction of an EncryptedStream: writer, wire, reader
    pr,           \* one Peer: its session, its accept loop and the open_stream callers
    rpc,          \* one RPC stream: the frames of each direction, the callee, the caller
    dl,           \* one FileTask: its position, the files on disk, what it has recorded
    mg,           \* the locks of one RepositoryManager and the operations that take them
    er            \* the reading end of an EncryptedStream whose transport ends

logVars == <<db, cur_counter, cnt, pending, assigned, peer_db, indexed, events,
             tasks, faults, stream>>

poolVars == <<outgoing, incoming, sessions, lock, calls, dials, dial_fails>>

syncVars == <<ndb, ncur, ncnt, nids, queue, connected>>

fileVars == <<need_resolve, peers_have, to_resolve, to_index, file_db,
              file_tasks, want_tasks, timers, up, file_rows, file_events,
              index_pending, marks, dropped>>

workVars == <<sent, rq, workers, ran, ended, sched>>

connVars == <<hs, es, pr, rpc, dl, mg, er>>

vars == <<logVars, poolVars, syncVars, fileVars, workVars, connVars>>

----------------------------------------------------------------------------
(* Helpers.                                                                *)

Max(a, b) == IF a > b THEN a ELSE b

RECURSIVE SeqMaxOrder(_, _)
SeqMaxOrder(s, m) ==
    IF s = <<>> THEN m ELSE SeqMaxOrder(Tail(s), Max(m, Head(s).order))

BoundedSeq(S, n) == UNION {[1..k -> S] : k \in 0..n}

\* `x as i32` of a u64 counter (sync_engine.rs:184, models.rs:43): the value
\* itself for every counter below 2^31, which covers every counter of the model
AsI32(x) == x

NoPeer == [present |-> FALSE]

\* rows of peer p's log, in insertion order
LogOf(d, p) == SelectSeq(d, LAMBDA r: r.peer_id = p)
CountersOf(d, p) == {d[i].counter : i \in {j \in 1..Len(d) : d[j].peer_id = p}}

\* MessageDatabase::get_highest_counter: MAX(counter), 0 for an empty log
GetHighestCounter(d, p) ==
    IF CountersOf(d, p) = {} THEN 0
    ELSE CHOOSE c \in CountersOf(d, p) : \A e \in CountersOf(d, p) : e <= c

----------------------------------------------------------------------------
(* Repository manager: the global order counter.                           *)

\* a manager that does not record the orders of a stored batch
UpdateCounterMany_Ignore(c, messages) == c

\* RepositoryManager::update_counter_many
UpdateCounterMany(c, messages) == SeqMaxOrder(messages, c)

\* RepositoryManager::update_counter
UpdateCounter(c, message) == IF message.order > c THEN message.order ELSE c

\* an add_own_message that hands out the counter without advancing it
NextOrder_NoIncrement(c) == c

\* RepositoryManager::add_own_message, lines 63-67: *cnt += 1; order = *cnt
NextOrder(c) == c + 1

----------------------------------------------------------------------------
(* Effects of an append: indexer and broadcast.                            *)

\* Indexer::index_messages: one row and one event per message
IndexRows(rows, messages) ==
    rows \o [i \in 1..Len(messages) |->
                [peer_id |-> messages[i].peer_id, counter |-> messages[i].counter,
                 order |-> messages[i].order]]

\* a broadcast that does not look at the author of the entries
MessageBroadcast_AnyAuthor(q, stored, live) ==
    q \cup {[peer_id |-> to, messages |-> stored] : to \in live}

\* SyncEngine::message_broadcast: one MessageTask per live peer, only for
\* entries of the local peer's log
MessageBroadcast(q, stored, live) ==
    IF Me # stored[1].peer_id THEN q
    ELSE q \cup {[peer_id |-> to, messages |-> stored] : to \in live}

\* PeerPool::current_peers: the peer ids with a live session in the outgoing
\* or in the incoming table, each listed once
CurrentPeers ==
    {e[1] : e \in {x \in outgoing \cup incoming : sessions[x[2]].alive}}

----------------------------------------------------------------------------
(* Repository (one peer's log).                                            *)

\* a filter that also keeps the entry at the current counter
Filtered_AtOrAbove(messages, counter) ==
    SelectSeq(messages, LAMBDA m: m.counter >= counter)

\* insert_message_batch line 92-95: entries above the current counter
Filtered(messages, counter) == SelectSeq(messages, LAMBDA m: m.counter > counter)

\* a check that looks at the peer id only
EntryValid_PeerOnly(msg, id, counter, i) == msg.peer_id = id

\* insert_message_batch lines 98-105: the checks on the kept entry at
\* position i (enumerate() counts from 0, a sequence from 1)
EntryValid(msg, id, counter, i) ==
    /\ msg.peer_id = id
    /\ msg.counter = counter + (i - 1) + 1

\* insert_message_batch lines 97-107: the loop over the kept entries
SequenceValid(filtered, id, counter) ==
    \A i \in 1..Len(filtered) : EntryValid(filtered[i], id, counter, i)

\* the error the loop returns at the first kept entry that fails a check
SequenceError(filtered, id, counter) ==
    LET bad == {i \in 1..Len(filtered) : ~EntryValid(filtered[i], id, counter, i)}
        first == CHOOSE i \in bad : \A j \in bad : i <= j
    IN  IF filtered[first].peer_id # id THEN "peer_id" ELSE "counter"

\* an insert_message_batch that leaves cur_counter where it was
CounterAfterBatch_Stale(counter, filtered) == counter

\* insert_message_batch: cur_counter.fetch_add(total) after save_many
CounterAfterBatch(counter, filtered) == counter + Len(filtered)

\* Repository::insert_message_batch on the repository `id` whose counter is
\* `counter`; store_ok tells whether save_many commits.  The result names
\* the outcome, the rows stored and the new counters.
InsertMessageBatch(id, messages, counter, order_cnt, store_ok) ==
    LET filtered == Filtered(messages, counter)
        same == [res |-> "ok", stored |-> <<>>, counter |-> counter, cnt |-> order_cnt]
    IN  IF messages = <<>> THEN same
        ELSE IF ~SequenceValid(filtered, id, counter)
             THEN [same EXCEPT !.res = SequenceError(filtered, id, counter)]
        ELSE IF Len(filtered) = 0 THEN same
        ELSE IF ~store_ok THEN [same EXCEPT !.res = "store"]
        ELSE [res |-> "ok", stored |-> filtered,
              counter |-> CounterAfterBatch(counter, filtered),
              cnt |-> UpdateCounterMany(order_cnt, filtered)]

\* the counter save_message leaves in cur_counter when db.save fails:
\* fetch_add (line 55-58) has already run
CounterAfterFailedSave(message, counter) ==
    IF message.counter = 0 THEN counter + 1 ELSE counter

\* Repository::save_message on repository `id`
SaveMessage(id, message, counter, order_cnt, store_ok) ==
    LET same == [res |-> "ok", stored |-> <<>>, counter |-> counter, cnt |-> order_cnt]
        m == IF message.counter = 0
             THEN [message EXCEPT !.counter = counter + 1]
             ELSE message
    IN  IF message.peer_id # id THEN [same EXCEPT !.res = "peer_id"]
        ELSE IF message.counter # 0 /\ message.counter # counter + 1
             THEN [same EXCEPT !.res = "counter"]
        ELSE IF ~store_ok
             THEN [same EXCEPT !.res = "store",
                               !.counter = CounterAfterFailedSave(message, counter)]
        ELSE [res |-> "ok", stored |-> <<m>>, counter |-> counter + 1,
              cnt |-> UpdateCounter(order_cnt, m)]

----------------------------------------------------------------------------
(* The log store of one node.                                              *)

\* an inbound stream: idle, holding a request that was read, or done with
\* the frames the handler wrote
Idle == [st |-> "idle"]
Busy == stream.st = "req"

\* PeerPool::new: empty tables, no lock taken, no get call running
NewPool ==
    /\ outgoing = {}
    /\ incoming = {}
    /\ sessions = <<>>
    /\ lock = [p \in PoolPeers |-> 0]
    /\ calls = [c \in 1..MaxCalls |-> [pc |-> "idle"]]
    /\ dials = [p \in PoolPeers |-> 0]
    /\ dial_fails = [p \in PoolPeers |-> 0]

\* two nodes that have stored nothing yet and are not connected
NewSync ==
    /\ ndb = [n \in Peers |-> <<>>]
    /\ ncur = [n \in Peers |-> [p \in Peers |-> 0]]
    /\ ncnt = [n \in Peers |-> 0]
    /\ nids = [n \in Peers |-> {n}]
    /\ queue = [n \in Peers |-> <<>>]
    /\ connected = FALSE

\* FileResolverStorage::new and FileResolver::new: nothing wanted, empty
\* channels, an empty catalog, every remote peer reachable
NewResolver ==
    /\ need_resolve = {}
    /\ peers_have = [f \in Files |-> [present |-> FALSE, list |-> <<>>]]
    /\ to_resolve = <<>>
    /\ to_index = <<>>
    /\ file_db = {}
    /\ file_tasks = <<>>
    /\ want_tasks = {}
    /\ timers = [f \in Files |-> 0]
    /\ up = FilePeers
    /\ file_rows = <<>>
    /\ file_events = {}
    /\ index_pending = <<>>
    /\ marks = 0
    /\ dropped = {}

\* a TCP stream on which the dialer is about to run write_handshake and the
\* acceptor read_handshake; nothing has been written
NewHandshake ==
    [dpc |-> "start", apc |-> "hello", toA |-> <<>>, toD |-> <<>>,
     d_eph |-> <<"pub", 0>>, d_their |-> "none", d_key |-> <<"none", {}, "">>,
     d_sig |-> [by |-> "none", over |-> <<<<"pub", 0>>, <<"pub", 0>>>>],
     a_eph |-> <<"pub", 0>>, a_their |-> "none", a_key |-> <<"none", {}, "">>,
     a_sig |-> [by |-> "none", over |-> <<<<"pub", 0>>, <<"pub", 0>>>>],
     seen |-> {}, alters |-> 0]

\* EncryptedStream::new on both ends: nothing written, the reader in
\* ReadingLength with empty buffers
NewStream ==
    [written |-> <<>>, wire |-> <<>>, read_state |-> "length", left |-> 0,
     out |-> <<>>, changed |-> 0]

\* tokio::sync::Mutex::new: nobody holds the mutex, nobody waits for it
NewMutex == [owner |-> 0, q |-> <<>>]

\* Peer::new and start_inbound_loop before the loop's first await: the watch
\* channel holds no unseen value, both mutexes are free, is_alive is true
NewPeer ==
    [loop |-> "top", session |-> NewMutex, open_lock |-> NewMutex,
     changed |-> FALSE, op |-> [o \in 1..OpenerCount |-> "idle"],
     opens |-> 0, accepted |-> 0, is_alive |-> TRUE]

\* a stream that open_stream has just returned to a caller and the accept
\* loop has handed to handle_request: nothing is written yet
NewRpc ==
    [up |-> <<>>, down |-> <<>>, callee |-> "read", req |-> "",
     caller |-> "start", rd |-> 0, got |-> <<>>]

\* a FileTask taken from the queue, before FileTask::run starts: no staging
\* file and no renamed file on disk, no descriptor, nothing sent; last is
\* what read_response returned last in the current attempt
NewDownload ==
    [pc |-> "queued", i |-> 1, staging |-> FALSE, data |-> <<>>,
     renamed |-> FALSE, file |-> <<>>, desc |-> FALSE, results |-> 0,
     wants |-> 0, ends |-> <<>>, last |-> "none"]

\* the mutexes of a RepositoryManager: the repositories map, counter_lock
\* and the mutex around each Repository
LockIds == {"map", "counter", "repoA", "repoB"}

\* the mutex around the Repository of peer p
RepoLock(p) == IF p = "A" THEN "repoA" ELSE "repoB"

\* an operation that has not been called yet, and one that has returned
IdleOp == [prog |-> <<>>, ip |-> 1, wait |-> FALSE]
DoneOp == [prog |-> <<>>, ip |-> 0, wait |-> FALSE]

\* RepositoryManager::new: no lock is held, no operation is running; an
\* operation is the lock operations it performs (prog), its position in
\* them and whether it waits in the queue of a mutex
NewManager ==
    [locks |-> [l \in LockIds |-> NewMutex],
     op |-> [o \in 1..ManagerOps |-> IdleOp]]

\* EncryptedStream::new on the reading end: ReadingLength, both buffers
\* empty (the buffers are known by their lengths); wire counts the bytes
\* the transport still delivers before its end, ahead holds the frame_len
\* of the frames whose length bytes have not been split off
NewReader ==
    [pc |-> "new", wire |-> 0, ahead |-> <<>>, read_buffer |-> 0,
     read_state |-> "length", frame_len |-> 0, decrypted_buffer |-> 0,
     cap |-> 0, ret |-> "none", reads |-> 0, spins |-> 0]

NewConn ==
    /\ hs = NewHandshake /\ es = NewStream /\ pr = NewPeer /\ rpc = NewRpc
    /\ dl = NewDownload /\ mg = NewManager /\ er = NewReader

\* PeriodicTaskScheduler::start before its first await: the first tick of a
\* tokio interval is due at once, no invocation is in flight
NewScheduler == [pc |-> "tick", due |-> 1, running |-> 0, log |-> <<>>]

\* RequestQueue::new and start: an empty channel, every worker waiting; the
\* scheduler of SyncEngine::run has entered its loop
NewQueue ==
    /\ sched = NewScheduler
    /\ sent = {}
    /\ rq = <<>>
    /\ workers = [w \in 1..WorkerCount |-> 0]
    /\ ran = <<>>
    /\ ended = <<>>

\* a node that has stored nothing yet
NewStore ==
    /\ db = <<>>
    /\ cur_counter = [p \in Peers |-> 0]
    /\ cnt = 0
    /\ pending = {}
    /\ assigned = <<>>
    /\ peer_db = [p \in Peers |->
                    IF p = Me THEN [present |-> TRUE, key |-> p, signing |-> TRUE]
                    ELSE NoPeer]
    /\ indexed = <<>>
    /\ events = 0
    /\ tasks = {}
    /\ faults = 0
    /\ stream = Idle

InitLog ==
    /\ NewStore /\ NewPool /\ NewSync /\ NewResolver /\ NewQueue
    /\ NewConn

\* whether a store operation of this step fails
StoreOutcomes == IF faults < MaxFaults THEN {TRUE, FALSE} ELSE {TRUE}

\* MessagePayload::decode in Indexer::process_message: the payload of a
\* remote entry is bytes its author chose and is stored without being
\* decoded; "raw" stands for bytes that are no MessagePayload
Decodes(payload) == payload # "raw"

\* the number of leading entries whose payload decodes
RECURSIVE DecodedPrefix(_)
DecodedPrefix(stored) ==
    IF stored = <<>> \/ ~Decodes(Head(stored).payload) THEN 0
    ELSE 1 + DecodedPrefix(Tail(stored))

\* the outcomes of the index database's INSERT in one append, when the
\* index database of the specification may fail
IndexOutcomes == IF faults < MaxFaults THEN {TRUE, FALSE} ELSE {TRUE}

\* Indexer::index_messages on the entries an append stored: the number of
\* entries indexed when the loop ends. The loop ends at the first entry
\* whose payload does not decode, or earlier when the INSERT into
\* indexed_messages returns an error (FALSE \in index)
IndexedCounts(stored, index) ==
    IF FALSE \in index
    THEN 0..DecodedPrefix(stored)
    ELSE {DecodedPrefix(stored)}

\* the rows, index rows, events and broadcast tasks after an append stored r
\* and indexed the first k of its entries; message_broadcast comes after
\* index_messages and is not reached when that fails
ApplyStored(r, k) ==
    /\ db' = db \o r.stored
    /\ cnt' = r.cnt
    /\ IF r.stored = <<>>
       THEN UNCHANGED <<indexed, events, tasks>>
       ELSE /\ indexed' = IndexRows(indexed, SubSeq(r.stored, 1, k))
            /\ events' = events + k
            /\ tasks' = IF k = Len(r.stored)
                        THEN MessageBroadcast(tasks, r.stored, CurrentPeers)
                        ELSE tasks

\* add_own_message lines 63-67: take the order under counter_lock
AddOwnAssign ==
    /\ ~Busy
    /\ Len(assigned) < MaxOwn
    /\ \E pl \in OwnPayloads :
         pending' = pending \cup {[order |-> NextOrder(cnt), payload |-> pl]}
    /\ cnt' = NextOrder(cnt)
    /\ assigned' = Append(assigned, NextOrder(cnt))
    /\ UNCHANGED <<db, cur_counter, peer_db, indexed, events, tasks, faults,
                   stream>>
    /\ UNCHANGED <<poolVars, syncVars, fileVars, workVars, connVars>>

\* add_own_message lines 68-70: save_message under the repository lock
AddOwnSave(index) ==
    \E call \in pending, ok \in StoreOutcomes :
        LET message == [peer_id |-> Me, counter |-> 0, order |-> call.order,
                        payload |-> call.payload]
            r == SaveMessage(Me, message, cur_counter[Me], cnt, ok)
        IN  /\ ~Busy
            /\ cur_counter[Me] < MaxCounter
            /\ pending' = pending \ {call}
            /\ cur_counter' = [cur_counter EXCEPT ![Me] = r.counter]
            /\ \E k \in IndexedCounts(r.stored, index) :
                  /\ ApplyStored(r, k)
                  /\ faults' = IF ok /\ k = DecodedPrefix(r.stored)
                               THEN faults ELSE faults + 1
            /\ UNCHANGED <<assigned, peer_db, stream>>
            /\ UNCHANGED <<poolVars, syncVars, fileVars, workVars, connVars>>

\* wire entries of one batch: every entry names peer mp and carries the
\* payload of c, the counters are arbitrary, the orders (models.rs:25,
\* global_counter) rise from c.order as they do in the sender's log
WireBatches(mp, contents) ==
    {[i \in DOMAIN cs |->
        [peer_id |-> mp, counter |-> cs[i], order |-> c.order + (i - 1),
         payload |-> c.payload]] :
     cs \in BoundedSeq(1..MaxCounter, MaxBatch), c \in contents}

\* the identity record attached to a Messages request
Identities == {"none", "valid", "invalid"}

\* StreamProtocol::read_request: a Messages request arrives on a fresh
\* stream; idents and contents are what the remotes of a specification send
RecvMessages(idents, contents) ==
    /\ ~Busy
    /\ \E p \in Peers, mp \in Peers, ident \in idents :
         \E messages \in WireBatches(mp, contents) :
            stream' = [st |-> "req", peer_id |-> p, messages |-> messages,
                       ident |-> ident]
    /\ UNCHANGED <<db, cur_counter, cnt, pending, assigned, peer_db, indexed,
                   events, tasks, faults>>
    /\ UNCHANGED <<poolVars, syncVars, fileVars, workVars, connVars>>

\* the frames of a MessageAccept reply
AcceptFrames(counter) ==
    <<[t |-> "MessageAccept", counter |-> AsI32(counter)], [t |-> "EOF"]>>

\* SyncEngine::handle_request, Messages variant, on the request read
HandleMessages(index) ==
    /\ Busy
    /\ \E peer_ok \in StoreOutcomes, ok \in StoreOutcomes :
        LET p == stream.peer_id
            messages == stream.messages
            ident == stream.ident
            peer_failed == ident = "invalid" \/ (ident = "valid" /\ ~peer_ok)
            r == InsertMessageBatch(p, messages, cur_counter[p], cnt, ok)
            reaches_store == /\ ~peer_failed
                             /\ messages # <<>>
                             /\ SequenceValid(Filtered(messages, cur_counter[p]),
                                              p, cur_counter[p])
                             /\ Len(Filtered(messages, cur_counter[p])) > 0
        IN  \* a fault is drawn only for a store operation the handler reaches
            /\ (ident # "valid") => peer_ok
            /\ (~reaches_store) => ok
            /\ (~peer_ok) => ok
            /\ IF peer_failed
               THEN /\ stream' = [st |-> "done", res |-> "identity",
                                   n |-> Len(messages), total |-> 0,
                                   out |-> <<>>]
                    /\ faults' = IF peer_ok /\ ok THEN faults ELSE faults + 1
                    /\ UNCHANGED <<db, cur_counter, cnt, peer_db, indexed,
                                   events, tasks>>
               ELSE /\ peer_db' = IF ident = "valid"
                                  THEN [peer_db EXCEPT ![p] =
                                          [present |-> TRUE, key |-> p,
                                           signing |-> FALSE]]
                                  ELSE peer_db
                    /\ cur_counter' = [cur_counter EXCEPT ![p] = r.counter]
                    /\ \E k \in IndexedCounts(r.stored, index) :
                          /\ ApplyStored(r, k)
                          /\ faults' = IF peer_ok /\ ok
                                          /\ k = DecodedPrefix(r.stored)
                                       THEN faults ELSE faults + 1
                    /\ stream' = [st |-> "done", res |-> r.res,
                                   n |-> Len(messages),
                                   total |-> Len(r.stored),
                                   out |-> AcceptFrames(r.counter)]
            /\ UNCHANGED <<pending, assigned>>
            /\ UNCHANGED <<poolVars, syncVars, fileVars, workVars, connVars>>

----------------------------------------------------------------------------
(* The CompareRequest handler.                                             *)

\* a comparison that also lists a log at which the caller is level
CounterBehind_OrLevel(other_counter, state_counter) ==
    other_counter <= AsI32(state_counter)

\* the comparison of one payload entry with one of our states
\* (sync_engine.rs:258)
CounterBehind(other_counter, state_counter) == other_counter < AsI32(state_counter)

\* the inner loop over compare_payload for one of our states: whether the
\* state's peer id is pushed, given whether an entry for it was spotted
RECURSIVE Listed(_, _, _)
Listed(state, payload, spotted) ==
    IF payload = <<>> THEN ~spotted
    ELSE IF Head(payload).peer_id = state.peer_id
         THEN IF CounterBehind(Head(payload).counter, state.counter)
              THEN TRUE
              ELSE Listed(state, Tail(payload), TRUE)
         ELSE Listed(state, Tail(payload), spotted)

\* the outer loop: peer_ids in the order of my_states
RECURSIVE ComparePeerIds(_, _)
ComparePeerIds(my_states, payload) ==
    IF my_states = <<>> THEN <<>>
    ELSE (IF Listed(Head(my_states), payload, FALSE)
          THEN <<Head(my_states).peer_id>> ELSE <<>>)
         \o ComparePeerIds(Tail(my_states), payload)

\* MessageDatabase::get_peers: the peer ids that have a row
GetPeers(d) == {d[i].peer_id : i \in 1..Len(d)}

\* the sequences that list every element of set S once
Enumerations(S) ==
    {f \in [1..Cardinality(S) -> S] : \A i, j \in DOMAIN f : f[i] = f[j] => i = j}

\* RepositoryManager::get_repo_states, for the row order `peer_ids` of
\* SELECT DISTINCT peer_id
GetRepoStates(peer_ids, cc) ==
    [i \in DOMAIN peer_ids |-> [peer_id |-> peer_ids[i], counter |-> cc[peer_ids[i]]]]

\* a log that holds the entries 1..n of peer p
DenseLog(p, n) ==
    [i \in 1..n |-> [peer_id |-> p, counter |-> i, order |-> i, payload |-> "x"]]

\* a node whose logs hold cc[p] entries of every peer p
StoreWith(cc) ==
    /\ db = DenseLog("A", cc["A"]) \o DenseLog("B", cc["B"])
    /\ cur_counter = cc
    /\ cnt = Max(cc["A"], cc["B"])
    /\ pending = {}
    /\ assigned = <<>>
    /\ peer_db = [p \in Peers |->
                    IF p = Me THEN [present |-> TRUE, key |-> p, signing |-> TRUE]
                    ELSE NoPeer]
    /\ indexed = IndexRows(<<>>, DenseLog("A", cc["A"]) \o DenseLog("B", cc["B"]))
    /\ events = 0
    /\ tasks = {}
    /\ faults = 0
    /\ stream = Idle

\* a start-up that takes the NULL of MAX(order_counter) for a failed read
InitCounter_FallbackOnEmpty(d) == IF d = <<>> THEN 1 ELSE SeqMaxOrder(d, 0)

\* prepare_deps: message_db.init().await?.unwrap_or_else(|| 1).  init reads
\* SELECT MAX(order_counter) with try_get(..).ok(): the NULL of an empty
\* table decodes as the integer 0, as it does for MAX(counter) in
\* get_highest_counter, so the Option is Some for every store
InitCounter(d) ==
    LET got == [some |-> TRUE, value |-> SeqMaxOrder(d, 0)]
    IN  IF got.some THEN got.value ELSE 1

\* the node is started on a store that holds the log d: RepositoryManager::new
\* gets the order counter of prepare_deps, Repository::new the highest
\* counter of its peer
StartedOn(d) ==
    /\ db = d
    /\ cur_counter = [p \in Peers |-> GetHighestCounter(d, p)]
    /\ cnt = InitCounter(d)
    /\ pending = {}
    /\ assigned = <<>>
    /\ peer_db = [p \in Peers |->
                    IF p = Me THEN [present |-> TRUE, key |-> p, signing |-> TRUE]
                    ELSE NoPeer]
    /\ indexed = IndexRows(<<>>, d)
    /\ events = 0
    /\ tasks = {}
    /\ faults = 0
    /\ stream = Idle

\* the persisted logs of a start-up: a few entries of the local peer, then a
\* few of a remote peer whose orders come from that peer's own counter
InitStartup ==
    /\ \E a \in 0..MaxCounter, b \in 0..MaxCounter, base \in 0..MaxCounter :
          StartedOn(DenseLog(Me, a)
                    \o [i \in 1..b |-> [peer_id |-> "B", counter |-> i,
                                        order |-> base + i, payload |-> "x"]])
    /\ NewPool
    /\ NewSync
    /\ NewResolver
    /\ NewQueue
    /\ NewConn

InitCompare ==
    /\ \E cc \in [Peers -> 0..MaxCounter] : StoreWith(cc)
    /\ NewPool
    /\ NewSync
    /\ NewResolver
    /\ NewQueue
    /\ NewConn

\* the entries a compare_payload can carry: a peer id the callee may or may
\* not know and an i32 counter
PayloadEntries ==
    {[peer_id |-> p, counter |-> c] : p \in Peers \cup {"C"}, c \in -1..MaxCounter}

\* StreamProtocol::read_request: a CompareRequest arrives on a fresh stream
RecvCompare ==
    /\ stream.st = "idle"
    /\ \E payload \in BoundedSeq(PayloadEntries, MaxPayload) :
          stream' = [st |-> "compare", compare_payload |-> payload]
    /\ UNCHANGED <<db, cur_counter, cnt, pending, assigned, peer_db, indexed,
                   events, tasks, faults>>
    /\ UNCHANGED <<poolVars, syncVars, fileVars, workVars, connVars>>

\* SyncEngine::handle_request, CompareRequest variant
HandleCompare ==
    /\ stream.st = "compare"
    /\ \E peer_ids \in Enumerations(GetPeers(db)) :
          stream' = [st |-> "answered",
                     compare_payload |-> stream.compare_payload,
                     out |-> <<[t |-> "CompareResponse",
                                peer_ids |-> ComparePeerIds(
                                    GetRepoStates(peer_ids, cur_counter),
                                    stream.compare_payload)],
                               [t |-> "EOF"]>>]
    /\ UNCHANGED <<db, cur_counter, cnt, pending, assigned, peer_db, indexed,
                   events, tasks, faults>>
    /\ UNCHANGED <<poolVars, syncVars, fileVars, workVars, connVars>>

NextCompare == RecvCompare \/ HandleCompare

SpecCompare == InitCompare /\ [][NextCompare]_vars

----------------------------------------------------------------------------
(* The peer pool.                                                          *)

\* a table without its entry of key k
HashMapRemove(t, k) == {e \in t : e[1] # k}

\* an insert that leaves the old entry of the key in the table
HashMapInsert_KeepOld(t, k, v) == t \cup {<<k, v>>}

\* HashMap::insert: the entry of key k is replaced
HashMapInsert(t, k, v) == HashMapRemove(t, k) \cup {<<k, v>>}

\* Peer::is_alive of session s
IsAlive(s) == sessions[s].alive

\* a lookup that takes an entry whether or not its session is alive
LiveEntries_Any(t, p) == {e \in t : e[1] = p}

\* the entries of peer id p in table t whose session is alive
LiveEntries(t, p) == {e \in t : e[1] = p /\ IsAlive(e[2])}

\* a lock that every caller finds free
LockFree_Always(l, p) == TRUE

\* the per-peer mutex of PeerPool.locks is free
LockFree(l, p) == l[p] = 0

\* Peer::new for a session whose remote proved `key`, stored under peer id p
\* in table dir
NewSession(p, key, dir) == [peer_id |-> p, key |-> key, dir |-> dir, alive |-> TRUE]

\* the outcomes of Dialer::dial within the timeout: an error, or a session
\* with a remote that proved some long-term key in the handshake
DialOutcomes == {"fail"} \cup Keys

\* PeerPool::get is called for peer id p (lines 89-96)
GetCall(c, p) ==
    /\ calls[c].pc = "idle"
    /\ calls' = [calls EXCEPT ![c] = [pc |-> "waiting", peer_id |-> p]]
    /\ UNCHANGED <<outgoing, incoming, sessions, lock, dials, dial_fails>>
    /\ UNCHANGED <<logVars, syncVars, fileVars, workVars, connVars>>

\* PeerPool::get lines 97-120: take the lock of the peer id, look the peer
\* up in outgoing, then in incoming, dropping a dead entry; return the live
\* session or go on to dial
GetLookup(c) ==
    /\ calls[c].pc = "waiting"
    /\ LET p == calls[c].peer_id
           out == LiveEntries(outgoing, p)
           inc == LiveEntries(incoming, p)
       IN  /\ LockFree(lock, p)
           /\ IF out # {}
              THEN /\ calls' = [calls EXCEPT ![c] =
                                  [pc |-> "done", peer_id |-> p,
                                   res |-> (CHOOSE e \in out : TRUE)[2]]]
                   /\ UNCHANGED <<outgoing, incoming, lock, dials>>
              ELSE /\ outgoing' = HashMapRemove(outgoing, p)
                   /\ IF inc # {}
                      THEN /\ calls' = [calls EXCEPT ![c] =
                                          [pc |-> "done", peer_id |-> p,
                                           res |-> (CHOOSE e \in inc : TRUE)[2]]]
                           /\ UNCHANGED <<incoming, lock, dials>>
                      ELSE /\ incoming' = HashMapRemove(incoming, p)
                           /\ calls' = [calls EXCEPT ![c] =
                                          [pc |-> "dialing", peer_id |-> p]]
                           /\ lock' = [lock EXCEPT ![p] = c]
                           /\ dials' = [dials EXCEPT ![p] = @ + 1]
    /\ UNCHANGED <<sessions, dial_fails>>
    /\ UNCHANGED <<logVars, syncVars, fileVars, workVars, connVars>>

\* PeerPool::get lines 121-141 with Dialer::dial: the dial ends; a session
\* is stored in outgoing under the peer id that was asked for
DialDone(c) ==
    /\ calls[c].pc = "dialing"
    /\ \E outcome \in DialOutcomes :
        LET p == calls[c].peer_id
            sid == Len(sessions) + 1
        IN  IF outcome = "fail"
            THEN /\ calls' = [calls EXCEPT ![c] =
                                [pc |-> "done", peer_id |-> p, res |-> 0]]
                 /\ dial_fails' = [dial_fails EXCEPT ![p] = @ + 1]
                 /\ UNCHANGED <<outgoing, sessions>>
            ELSE /\ Len(sessions) < MaxSessions
                 /\ sessions' = Append(sessions, NewSession(p, outcome, "out"))
                 /\ outgoing' = HashMapInsert(outgoing, p, sid)
                 /\ calls' = [calls EXCEPT ![c] =
                                [pc |-> "done", peer_id |-> p, res |-> sid]]
                 /\ UNCHANGED dial_fails
    /\ lock' = [lock EXCEPT ![calls[c].peer_id] = 0]
    /\ UNCHANGED <<incoming, dials>>
    /\ UNCHANGED <<logVars, syncVars, fileVars, workVars, connVars>>

\* server accept (server.rs) and PeerPool::insert: a remote that proved key
\* p in the handshake is stored in incoming under p
Insert(p) ==
    /\ Len(sessions) < MaxSessions
    /\ sessions' = Append(sessions, NewSession(p, p, "in"))
    /\ incoming' = HashMapInsert(incoming, p, Len(sessions) + 1)
    /\ UNCHANGED <<outgoing, lock, calls, dials, dial_fails>>
    /\ UNCHANGED <<logVars, syncVars, fileVars, workVars, connVars>>

\* Peer::start_inbound_loop ends (I/O error or close): is_alive turns false
SessionDies(s) ==
    /\ IsAlive(s)
    /\ sessions' = [sessions EXCEPT ![s].alive = FALSE]
    /\ UNCHANGED <<outgoing, incoming, lock, calls, dials, dial_fails>>
    /\ UNCHANGED <<logVars, syncVars, fileVars, workVars, connVars>>

InitPool ==
    /\ NewStore /\ NewPool /\ NewSync /\ NewResolver /\ NewQueue
    /\ NewConn

NextPool ==
    \/ \E c \in 1..MaxCalls, p \in PoolPeers : GetCall(c, p)
    \/ \E c \in 1..MaxCalls : GetLookup(c)
    \/ \E c \in 1..MaxCalls : DialDone(c)
    \/ \E p \in PoolPeers : Insert(p)
    \/ \E s \in 1..Len(sessions) : SessionDies(s)

SpecPool == InitPool /\ [][NextPool]_vars

\* PeerPool::current_peers is called and returns: both tables are read under
\* their locks, neither is written
CurrentPeersCall(c) ==
    /\ calls[c].pc = "idle"
    /\ calls' = [calls EXCEPT ![c] = [pc |-> "listed", peers |-> CurrentPeers]]
    /\ UNCHANGED <<outgoing, incoming, sessions, lock, dials, dial_fails>>
    /\ UNCHANGED <<logVars, syncVars, fileVars, workVars, connVars>>

\* the pool with callers of get and of current_peers
NextEvict ==
    \/ \E c \in 1..MaxCalls, p \in PoolPeers : GetCall(c, p)
    \/ \E c \in 1..MaxCalls : GetLookup(c)
    \/ \E c \in 1..MaxCalls : DialDone(c)
    \/ \E c \in 1..MaxCalls : CurrentPeersCall(c)
    \/ \E p \in PoolPeers : Insert(p)
    \/ \E s \in 1..Len(sessions) : SessionDies(s)

SpecEvict == InitPool /\ [][NextEvict]_vars

----------------------------------------------------------------------------
(* Two nodes A and B that replicate by periodic sweeps.  A node is named   *)
(* by the peer id of its own log.                                          *)

\* the address book of node n: the other node
OtherNode(n) == CHOOSE m \in Peers : m # n

\* the rows of set S in counter order
RECURSIVE SortByCounter(_)
SortByCounter(S) ==
    IF S = {} THEN <<>>
    ELSE LET first == CHOOSE r \in S : \A q \in S : r.counter <= q.counter
         IN  <<first>> \o SortByCounter(S \ {first})

\* MessageDatabase::get_after: WHERE peer_id = ? AND counter >= ? ORDER BY
\* counter
GetAfter(d, p, counter) ==
    SortByCounter({d[i] : i \in {j \in 1..Len(d) :
                                   d[j].peer_id = p /\ d[j].counter >= counter}})

\* a handler that never attaches the identity record
BatchMessageResponse_NoIdentity(d, cc, ids, repo_id, their_counter) ==
    IF their_counter >= cc[repo_id]
    THEN [messages |-> <<>>, peer |-> FALSE]
    ELSE [messages |-> GetAfter(d, repo_id, their_counter), peer |-> FALSE]

\* SyncEngine::handle_request, BatchMessageRequest variant, at a callee with
\* table d, counters cc and identity rows ids
BatchMessageResponse(d, cc, ids, repo_id, their_counter) ==
    IF their_counter >= cc[repo_id]
    THEN [messages |-> <<>>, peer |-> FALSE]
    ELSE [messages |-> GetAfter(d, repo_id, their_counter),
          peer |-> their_counter = 0 /\ repo_id \in ids]

\* CompareStateTask::run lines 672-702: the BatchRequestTasks enqueued for
\* a CompareResponse, first for the logs we know, then for the others
RECURSIVE KnownRequests(_, _, _)
KnownRequests(to, repo_states, peer_ids) ==
    IF repo_states = <<>> THEN <<>>
    ELSE (IF \E i \in 1..Len(peer_ids) : peer_ids[i] = Head(repo_states).peer_id
          THEN <<[kind |-> "batch", peer_id |-> to,
                  repo_id |-> Head(repo_states).peer_id,
                  counter |-> Head(repo_states).counter]>>
          ELSE <<>>)
         \o KnownRequests(to, Tail(repo_states), peer_ids)

\* a second loop that asks from 0 for every returned log, known or not
UnknownRequests_Unfiltered(to, repo_states, peer_ids) ==
    [i \in 1..Len(peer_ids) |->
        [kind |-> "batch", peer_id |-> to, repo_id |-> peer_ids[i], counter |-> 0]]

RECURSIVE UnknownRequests(_, _, _)
UnknownRequests(to, repo_states, peer_ids) ==
    IF peer_ids = <<>> THEN <<>>
    ELSE (IF \E i \in 1..Len(repo_states) : repo_states[i].peer_id = Head(peer_ids)
          THEN <<>>
          ELSE <<[kind |-> "batch", peer_id |-> to, repo_id |-> Head(peer_ids),
                  counter |-> 0]>>)
         \o UnknownRequests(to, repo_states, Tail(peer_ids))

\* RepositoryManager::add_own_message at node n while no peer is connected
\* (message_broadcast finds no live peer)
Author(n) ==
    /\ ~connected
    /\ ncur[n][n] < MaxCounter
    /\ \E ok \in StoreOutcomes :
        LET order == NextOrder(ncnt[n])
            message == [peer_id |-> n, counter |-> 0, order |-> order,
                        payload |-> "x"]
            r == SaveMessage(n, message, ncur[n][n], order, ok)
        IN  /\ ndb' = [ndb EXCEPT ![n] = @ \o r.stored]
            /\ ncur' = [ncur EXCEPT ![n][n] = r.counter]
            /\ ncnt' = [ncnt EXCEPT ![n] = r.cnt]
            /\ faults' = IF ok THEN faults ELSE faults + 1
    /\ UNCHANGED <<nids, queue, connected>>
    /\ UNCHANGED <<db, cur_counter, cnt, pending, assigned, peer_db, indexed,
                   events, tasks, stream>>
    /\ UNCHANGED <<poolVars, fileVars, workVars, connVars>>

\* the nodes reach each other; from here on no entry is authored
Connect ==
    /\ ~connected
    /\ connected' = TRUE
    /\ UNCHANGED <<ndb, ncur, ncnt, nids, queue>>
    /\ UNCHANGED <<logVars, poolVars, fileVars, workVars, connVars>>

\* the periodic action of SyncEngine::new (lines 74-119): a CompareStateTask
\* with a snapshot of the repo states for every peer of the address book
Sweep(n) ==
    /\ connected
    /\ Len(queue[n]) < MaxQueue
    /\ \E peer_ids \in Enumerations(GetPeers(ndb[n])) :
          queue' = [queue EXCEPT ![n] =
                      Append(@, [kind |-> "compare", peer_id |-> OtherNode(n),
                                 repo_states |-> GetRepoStates(peer_ids, ncur[n])])]
    /\ UNCHANGED <<ndb, ncur, ncnt, nids, connected>>
    /\ UNCHANGED <<logVars, poolVars, fileVars, workVars, connVars>>

\* CompareStateTask::run at node n, with the CompareRequest handler of the
\* callee
RunCompare(n) ==
    /\ connected
    /\ queue[n] # <<>>
    /\ Head(queue[n]).kind = "compare"
    /\ LET task == Head(queue[n])
           callee == task.peer_id
       IN  \E peer_ids \in Enumerations(GetPeers(ndb[callee])) :
             LET resp == ComparePeerIds(GetRepoStates(peer_ids, ncur[callee]),
                                        task.repo_states)
             IN  queue' = [queue EXCEPT ![n] =
                             Tail(@) \o KnownRequests(callee, task.repo_states, resp)
                                     \o UnknownRequests(callee, task.repo_states, resp)]
    /\ UNCHANGED <<ndb, ncur, ncnt, nids, connected>>
    /\ UNCHANGED <<logVars, poolVars, fileVars, workVars, connVars>>

\* BatchRequestTask::run at node n, with the BatchMessageRequest handler of
\* the callee
RunBatch(n) ==
    /\ connected
    /\ queue[n] # <<>>
    /\ Head(queue[n]).kind = "batch"
    /\ \E peer_ok \in StoreOutcomes, ok \in StoreOutcomes :
        LET task == Head(queue[n])
            callee == task.peer_id
            repo == task.repo_id
            resp == BatchMessageResponse(ndb[callee], ncur[callee], nids[callee],
                                         repo, task.counter)
            r == InsertMessageBatch(repo, resp.messages, ncur[n][repo], ncnt[n], ok)
            reaches_store == /\ peer_ok
                             /\ resp.messages # <<>>
                             /\ SequenceValid(Filtered(resp.messages, ncur[n][repo]),
                                              repo, ncur[n][repo])
                             /\ Len(Filtered(resp.messages, ncur[n][repo])) > 0
        IN  /\ (~resp.peer) => peer_ok
            /\ (~reaches_store) => ok
            /\ faults' = IF peer_ok /\ ok THEN faults ELSE faults + 1
            /\ IF ~peer_ok
               THEN UNCHANGED <<ndb, ncur, ncnt, nids>>
               ELSE /\ nids' = IF resp.peer
                               THEN [nids EXCEPT ![n] = @ \cup {repo}]
                               ELSE nids
                    /\ ndb' = [ndb EXCEPT ![n] = @ \o r.stored]
                    /\ ncur' = [ncur EXCEPT ![n][repo] = r.counter]
                    /\ ncnt' = [ncnt EXCEPT ![n] = r.cnt]
    /\ queue' = [queue EXCEPT ![n] = Tail(@)]
    /\ UNCHANGED connected
    /\ UNCHANGED <<db, cur_counter, cnt, pending, assigned, peer_db, indexed,
                   events, tasks, stream>>
    /\ UNCHANGED <<poolVars, fileVars, workVars, connVars>>

InitSync ==
    /\ NewStore /\ NewPool /\ NewSync /\ NewResolver /\ NewQueue
    /\ NewConn

NextSync ==
    \/ \E n \in Peers : Author(n)
    \/ Connect
    \/ \E n \in Peers : Sweep(n)
    \/ \E n \in Peers : RunCompare(n)
    \/ \E n \in Peers : RunBatch(n)

\* the scheduler ticks for ever and the workers drain the queue
SpecSync ==
    /\ InitSync
    /\ [][NextSync]_vars
    /\ \A n \in Peers : /\ WF_vars(Sweep(n))
                        /\ WF_vars(RunCompare(n))
                        /\ WF_vars(RunBatch(n))

----------------------------------------------------------------------------
(* The BatchMessageRequest handler of one node.                            *)

\* the peer ids whose identity row the peers table holds
KnownIds(pdb) == {p \in Peers : pdb[p].present}

\* StreamProtocol::read_request: a BatchMessageRequest arrives on a fresh
\* stream; my_counter is the counter a caller holds for the log
RecvBatchRequest ==
    /\ stream.st = "idle"
    /\ \E repo_id \in Peers, my_counter \in 0..(MaxCounter + 1) :
          stream' = [st |-> "batch", peer_id |-> repo_id, my_counter |-> my_counter]
    /\ UNCHANGED <<db, cur_counter, cnt, pending, assigned, peer_db, indexed,
                   events, tasks, faults>>
    /\ UNCHANGED <<poolVars, syncVars, fileVars, workVars, connVars>>

\* SyncEngine::handle_request, BatchMessageRequest variant
HandleBatchRequest ==
    /\ stream.st = "batch"
    /\ LET resp == BatchMessageResponse(db, cur_counter, KnownIds(peer_db),
                                        stream.peer_id, stream.my_counter)
       IN  stream' = [st |-> "batch_done", peer_id |-> stream.peer_id,
                      my_counter |-> stream.my_counter,
                      out |-> <<[t |-> "BatchMessageResponse",
                                 messages |-> resp.messages, peer |-> resp.peer],
                                [t |-> "EOF"]>>]
    /\ UNCHANGED <<db, cur_counter, cnt, pending, assigned, peer_db, indexed,
                   events, tasks, faults>>
    /\ UNCHANGED <<poolVars, syncVars, fileVars, workVars, connVars>>

NextBatch == RecvBatchRequest \/ HandleBatchRequest

\* the handler on every node state with dense logs
SpecBatch == InitCompare /\ [][NextBatch]_vars

----------------------------------------------------------------------------
(* The file resolver (file_resolver.rs), the FileTask and FileWantTask of  *)
(* the sync engine and the file-path side of the indexer.                  *)

NoneId == "none"
NoPath == <<>>

\* the descriptor a completed download records: FileDescription.local_path is
\* the staging name with the extension of the response frames
LocalPath(f) == <<f, "txt">>

CatalogIds == {d.id : d \in file_db}

\* FileDatabase::get_by_id
GetById(f) == IF f \in CatalogIds
              THEN (CHOOSE d \in file_db : d.id = f).local_path
              ELSE NoPath

ResolveWant(f, failed) == [file_id |-> f, failed_peers |-> failed]

InSeq(q, x) == \E i \in 1..Len(q) : q[i] = x

RemoveAt(q, k) == [i \in 1..(Len(q) - 1) |-> IF i < k THEN q[i] ELSE q[i + 1]]

\* entry(file_id).or_insert(Vec::new()).push(peer_id)
PushPeer(ph, f, p) ==
    [ph EXCEPT ![f] = [present |-> TRUE, list |-> Append(@.list, p)]]

\* peers_have.retain(|x| !want.failed_peers.contains(x))
Retain(list, failed) == SelectSeq(list, LAMBDA x : ~InSeq(failed, x))

\* FileResolverStorage::add_need_resolve
AddNeedResolve(f, peer) ==
    /\ need_resolve' = need_resolve \cup {f}
    /\ peers_have' = IF peer = NoneId THEN peers_have
                     ELSE PushPeer(peers_have, f, peer)
    /\ to_resolve' = Append(to_resolve, ResolveWant(f, <<>>))

\* the application marks a file wanted, with or without a peer
MarkWant(f, peer) ==
    /\ marks < MaxMarks
    /\ Len(to_resolve) < MaxWants
    /\ marks' = marks + 1
    /\ AddNeedResolve(f, peer)
    /\ UNCHANGED <<to_index, file_db, file_tasks, want_tasks, timers, up,
                   file_rows, file_events, index_pending, dropped>>
    /\ UNCHANGED <<logVars, poolVars, syncVars, workVars, connVars>>

\* the spawned task of run_resolve_async: sleep 5 s, then add_need_resolve
TimerFires(f) ==
    /\ timers[f] > 0
    /\ timers' = [timers EXCEPT ![f] = @ - 1]
    /\ AddNeedResolve(f, NoneId)
    /\ UNCHANGED <<to_index, file_db, file_tasks, want_tasks, up, file_rows,
                   file_events, index_pending, marks, dropped>>
    /\ UNCHANGED <<logVars, poolVars, syncVars, workVars, connVars>>

\* the branch of run_resolve_async that starts a download
StartsDownload(f, list) == f \in need_resolve /\ list # <<>>

\* one iteration of run_resolve_async
RunResolve ==
    /\ to_resolve # <<>>
    /\ LET want == Head(to_resolve)
           f == want.file_id
           list == IF want.failed_peers # <<>>
                   THEN Retain(peers_have[f].list, want.failed_peers)
                   ELSE peers_have[f].list
       IN  /\ to_resolve' = Tail(to_resolve)
           /\ IF f \in CatalogIds
              THEN /\ need_resolve' = need_resolve \ {f}
                   /\ to_index' = Append(to_index,
                                    [file_id |-> f, file_path |-> GetById(f)])
                   /\ UNCHANGED <<peers_have, file_tasks, timers>>
              ELSE IF peers_have[f].present
              THEN /\ peers_have' = [peers_have EXCEPT ![f].list = list]
                   /\ IF StartsDownload(f, list)
                      THEN /\ need_resolve' = need_resolve \ {f}
                           /\ file_tasks' = Append(file_tasks,
                                  [file_id |-> f, peer_ids |-> list, i |-> 1])
                           /\ UNCHANGED timers
                      ELSE /\ timers' = IF list = <<>>
                                        THEN [timers EXCEPT ![f] = @ + 1]
                                        ELSE timers
                           /\ UNCHANGED <<need_resolve, file_tasks>>
                   /\ UNCHANGED to_index
              ELSE UNCHANGED <<need_resolve, peers_have, to_index, file_tasks,
                               timers>>
    /\ UNCHANGED <<file_db, want_tasks, up, file_rows, file_events,
                   index_pending, marks, dropped>>
    /\ UNCHANGED <<logVars, poolVars, syncVars, workVars, connVars>>

\* the periodic action: one FileWantTask with the ids of need_resolve for
\* every peer of the address book
SweepFiles ==
    /\ want_tasks = {}
    /\ want_tasks' = {[peer_id |-> p, file_ids |-> need_resolve] : p \in FilePeers}
    /\ UNCHANGED <<need_resolve, peers_have, to_resolve, to_index, file_db,
                   file_tasks, timers, up, file_rows, file_events,
                   index_pending, marks, dropped>>
    /\ UNCHANGED <<logVars, poolVars, syncVars, workVars, connVars>>

\* FileWantTask::run: the peer answers with the ids it holds, and
\* add_peer_have_many records the peer for each of them
RunFileWant(t) ==
    /\ t \in want_tasks
    /\ want_tasks' = want_tasks \ {t}
    /\ LET have == IF t.peer_id \in up
                   THEN {f \in t.file_ids : t.peer_id \in Holders[f]}
                   ELSE {}
       IN  /\ have = {} \/ Len(to_resolve) < MaxWants
           /\ peers_have' = [f \in Files |->
                               IF f \in have
                               THEN [present |-> TRUE,
                                     list |-> Append(peers_have[f].list, t.peer_id)]
                               ELSE peers_have[f]]
           /\ to_resolve' = IF have = {} THEN to_resolve
                            ELSE Append(to_resolve,
                                        ResolveWant(CHOOSE f \in have : TRUE, <<>>))
    /\ UNCHANGED <<need_resolve, to_index, file_db, file_tasks, timers, up,
                   file_rows, file_events, index_pending, marks, dropped>>
    /\ UNCHANGED <<logVars, poolVars, syncVars, workVars, connVars>>

\* FileTask::download_file succeeds when the peer answers and the INSERT of
\* the descriptor is accepted (files.id is the primary key)
DownloadOk(f, peer) == peer \in up /\ peer \in Holders[f] /\ f \notin CatalogIds

\* what FileTask::run does after a failed attempt against its i-th peer
AfterFailure(q, k) ==
    IF q[k].i < Len(q[k].peer_ids)
    THEN [q EXCEPT ![k].i = @ + 1]
    ELSE RemoveAt(q, k)

\* FileTask::run, one attempt: the k-th task downloads from its next peer
RunFileTask(k) ==
    /\ k \in 1..Len(file_tasks)
    /\ LET t == file_tasks[k]
           f == t.file_id
           peer == t.peer_ids[t.i]
       IN  IF DownloadOk(f, peer)
           THEN /\ file_db' = file_db \cup {[id |-> f, local_path |-> LocalPath(f)]}
                /\ to_index' = Append(to_index,
                                 [file_id |-> f, file_path |-> LocalPath(f)])
                /\ file_tasks' = RemoveAt(file_tasks, k)
                /\ UNCHANGED to_resolve
           ELSE /\ file_tasks' = AfterFailure(file_tasks, k)
                /\ to_resolve' = IF t.i < Len(t.peer_ids) THEN to_resolve
                                 ELSE Append(to_resolve, ResolveWant(f, t.peer_ids))
                /\ UNCHANGED <<file_db, to_index>>
    /\ UNCHANGED <<need_resolve, peers_have, want_tasks, timers, up, file_rows,
                   file_events, index_pending, marks, dropped>>
    /\ UNCHANGED <<logVars, poolVars, syncVars, workVars, connVars>>

\* the session of a remote peer dies
PeerDies(p) ==
    /\ p \in Mortal \cap up
    /\ up' = up \ {p}
    /\ UNCHANGED <<need_resolve, peers_have, to_resolve, to_index, file_db,
                   file_tasks, want_tasks, timers, file_rows, file_events,
                   index_pending, marks, dropped>>
    /\ UNCHANGED <<logVars, poolVars, syncVars, workVars, connVars>>

\* Indexer::process_message for an entry that references f: file_path is
\* read from the catalog
ProcessMessage(f) ==
    /\ Len(file_rows) + Len(index_pending) < MaxRows
    /\ index_pending' = Append(index_pending,
                               [file_id |-> f, file_path |-> GetById(f)])
    /\ UNCHANGED <<need_resolve, peers_have, to_resolve, to_index, file_db,
                   file_tasks, want_tasks, timers, up, file_rows, file_events,
                   marks, dropped>>
    /\ UNCHANGED <<logVars, poolVars, syncVars, workVars, connVars>>

\* Indexer::index_message after process_message: the row is saved and the
\* Message event emitted
IndexMessage ==
    /\ index_pending # <<>>
    /\ index_pending' = Tail(index_pending)
    /\ file_rows' = Append(file_rows, Head(index_pending))
    /\ file_events' = file_events \cup
                        {<<Len(file_rows) + 1, Head(index_pending).file_path>>}
    /\ UNCHANGED <<need_resolve, peers_have, to_resolve, to_index, file_db,
                   file_tasks, want_tasks, timers, up, marks, dropped>>
    /\ UNCHANGED <<logVars, poolVars, syncVars, workVars, connVars>>

\* one iteration of run_index_async: Indexer::index_file_path sets file_path
\* in every row of the file and emits a Message event for each
RunIndex ==
    /\ to_index # <<>>
    /\ LET res == Head(to_index)
           hit == {r \in 1..Len(file_rows) : file_rows[r].file_id = res.file_id}
       IN  /\ file_rows' = [r \in 1..Len(file_rows) |->
                              IF r \in hit
                              THEN [file_rows[r] EXCEPT !.file_path = res.file_path]
                              ELSE file_rows[r]]
           /\ file_events' = file_events \cup {<<r, res.file_path>> : r \in hit}
    /\ to_index' = Tail(to_index)
    /\ UNCHANGED <<need_resolve, peers_have, to_resolve, file_db, file_tasks,
                   want_tasks, timers, up, index_pending, marks, dropped>>
    /\ UNCHANGED <<logVars, poolVars, syncVars, workVars, connVars>>

\* worker_loop: the timeout of 30 s elapses while FileTask::run awaits a
\* response of a stalled peer; the future is dropped where it stands, no
\* ResolveWant and no ResolveResult is sent
TimeoutFileTask(k) ==
    /\ k \in 1..Len(file_tasks)
    /\ file_tasks' = RemoveAt(file_tasks, k)
    /\ dropped' = dropped \cup {file_tasks[k].file_id}
    /\ UNCHANGED <<need_resolve, peers_have, to_resolve, to_index, file_db,
                   want_tasks, timers, up, file_rows, file_events,
                   index_pending, marks>>
    /\ UNCHANGED <<logVars, poolVars, syncVars, workVars, connVars>>

InitResolve ==
    /\ NewStore /\ NewPool /\ NewSync /\ NewResolver /\ NewQueue
    /\ NewConn

NextResolve ==
    \/ \E f \in Files, peer \in FilePeers \cup {NoneId} : MarkWant(f, peer)
    \/ \E f \in Files : TimerFires(f)
    \/ RunResolve
    \/ SweepFiles
    \/ \E t \in want_tasks : RunFileWant(t)
    \/ \E k \in 1..Len(file_tasks) : RunFileTask(k)
    \/ \E p \in FilePeers : PeerDies(p)
    \/ \E f \in Files : ProcessMessage(f)
    \/ IndexMessage
    \/ RunIndex

\* the resolve loop, the index loop, the timers, the scheduler and the workers
\* of the request queue keep running; the channel of ResolveWant items is
\* unbounded, so a FileWantTask is never kept waiting by a full channel:
\* strong fairness lets it through the MaxWants guard
SpecResolve ==
    /\ InitResolve
    /\ [][NextResolve]_vars
    /\ WF_vars(RunResolve)
    /\ WF_vars(RunIndex)
    /\ WF_vars(IndexMessage)
    /\ WF_vars(SweepFiles)
    /\ \A f \in Files : WF_vars(TimerFires(f))
    /\ SF_vars(\E t \in want_tasks : RunFileWant(t))
    /\ WF_vars(\E k \in 1..Len(file_tasks) : RunFileTask(k))

\* the resolver with a worker timeout that may cancel a running FileTask
NextCancel ==
    \/ \E f \in Files, peer \in FilePeers \cup {NoneId} : MarkWant(f, peer)
    \/ \E f \in Files : TimerFires(f)
    \/ RunResolve
    \/ SweepFiles
    \/ \E t \in want_tasks : RunFileWant(t)
    \/ \E k \in 1..Len(file_tasks) : RunFileTask(k)
    \/ \E k \in 1..Len(file_tasks) : TimeoutFileTask(k)
    \/ \E p \in FilePeers : PeerDies(p)
    \/ \E f \in Files : ProcessMessage(f)
    \/ IndexMessage
    \/ RunIndex

\* the same loops as in SpecResolve are fair; the timeout is not
SpecCancel ==
    /\ InitResolve
    /\ [][NextCancel]_vars
    /\ WF_vars(RunResolve)
    /\ WF_vars(RunIndex)
    /\ WF_vars(IndexMessage)
    /\ WF_vars(SweepFiles)
    /\ \A f \in Files : WF_vars(TimerFires(f))
    /\ SF_vars(\E t \in want_tasks : RunFileWant(t))
    /\ WF_vars(\E k \in 1..Len(file_tasks) : RunFileTask(k))

----------------------------------------------------------------------------
(* Specifications of the log store.                                        *)

\* the remotes of SpecLog send one content and no identity record
Content1 == {[order |-> 1, payload |-> "x"]}

\* the message store and the index database of SpecLog may fail
NextLog ==
    \/ AddOwnAssign
    \/ AddOwnSave(IndexOutcomes)
    \/ RecvMessages({"none"}, Content1)
    \/ HandleMessages(IndexOutcomes)

SpecLog == InitLog /\ [][NextLog]_vars

\* the remotes of SpecContent send entries of two contents (two order
\* values); the message store may fail, the index database does not
NextContent ==
    \/ AddOwnAssign
    \/ AddOwnSave({TRUE})
    \/ RecvMessages({"none"}, Contents)
    \/ HandleMessages({TRUE})

SpecContent == InitLog /\ [][NextContent]_vars

\* the remotes of SpecIdent attach identity records; the message store and
\* the peer store may fail, the index database does not
NextIdent ==
    \/ AddOwnAssign
    \/ AddOwnSave({TRUE})
    \/ RecvMessages(Identities, Content1)
    \/ HandleMessages({TRUE})

SpecIdent == InitLog /\ [][NextIdent]_vars

\* a remote entry whose payload is no MessagePayload
RawContent == {[order |-> 1, payload |-> "raw"]}

\* the remotes of SpecIndex send entries whose payload does not decode,
\* the own entries decode; the message store and the index database may fail
NextIndex ==
    \/ AddOwnAssign
    \/ AddOwnSave(IndexOutcomes)
    \/ RecvMessages({"none"}, RawContent)
    \/ HandleMessages(IndexOutcomes)

SpecIndex == InitLog /\ [][NextIndex]_vars


\* a pool that has accepted one inbound session from B and one from C
PoolAccepted ==
    /\ outgoing = {}
    /\ incoming = {<<"B", 1>>, <<"C", 2>>}
    /\ sessions = <<NewSession("B", "B", "in"), NewSession("C", "C", "in")>>
    /\ lock = [p \in PoolPeers |-> 0]
    /\ calls = [c \in 1..MaxCalls |-> [pc |-> "idle"]]
    /\ dials = [p \in PoolPeers |-> 0]
    /\ dial_fails = [p \in PoolPeers |-> 0]

InitBroadcast ==
    /\ NewStore /\ PoolAccepted /\ NewSync /\ NewResolver /\ NewQueue
    /\ NewConn

\* the log store of SpecLog on a node whose sessions die one by one; the
\* index database may fail in an own append
NextBroadcast ==
    \/ AddOwnAssign
    \/ AddOwnSave(IndexOutcomes)
    \/ RecvMessages({"none"}, Content1)
    \/ HandleMessages({TRUE})
    \/ \E s \in 1..Len(sessions) : SessionDies(s)

SpecBroadcast == InitBroadcast /\ [][NextBroadcast]_vars

\* a node that is started on a persisted store and then appends own entries
NextStartup ==
    \/ AddOwnAssign
    \/ AddOwnSave(IndexOutcomes)

SpecStartup == InitStartup /\ [][NextStartup]_vars

----------------------------------------------------------------------------
(* The MessageTask of the sync engine.                                     *)

\* PeerDatabase::get_peer_by_id
GetPeerById(pdb, p) == IF pdb[p].present THEN pdb[p] ELSE NoPeer

\* MessageTask::run: the identity record is looked up when the first entry
\* of the task carries counter 0
LooksUpIdentity(messages) == messages[1].counter = 0

\* the Messages request a MessageTask writes
MessagesRequest(messages, pdb) ==
    [peer_id |-> messages[1].peer_id,
     messages |-> messages,
     peer |-> IF LooksUpIdentity(messages)
              THEN GetPeerById(pdb, messages[1].peer_id)
              ELSE NoPeer]

\* MessageTask::run: PeerPool::get returns the live session, or dials when
\* there is none; with a session the request is written
RunMessageTask(t) ==
    /\ t \in tasks
    /\ tasks' = tasks \ {t}
    /\ \E reached \in IF t.peer_id \in CurrentPeers THEN {TRUE} ELSE {TRUE, FALSE} :
          sent' = IF reached
                  THEN sent \cup {[to |-> t.peer_id,
                                   req |-> MessagesRequest(t.messages, peer_db)]}
                  ELSE sent
    /\ UNCHANGED <<db, cur_counter, cnt, pending, assigned, peer_db, indexed,
                   events, faults, stream>>
    /\ UNCHANGED <<rq, workers, ran, ended, sched>>
    /\ UNCHANGED <<poolVars, syncVars, fileVars, connVars>>

\* own appends on a node with two sessions, and the workers running the
\* broadcast tasks
NextTask ==
    \/ AddOwnAssign
    \/ AddOwnSave(IndexOutcomes)
    \/ \E t \in tasks : RunMessageTask(t)
    \/ \E s \in 1..Len(sessions) : SessionDies(s)

SpecTask == InitBroadcast /\ [][NextTask]_vars

----------------------------------------------------------------------------
(* The FileWantRequest handler.                                            *)

\* a response that echoes the request
FileWantResponse_Echo(ids, all_file_ids) == ids

\* handle_request lines 194-204: the requested ids found in all_file_ids, in
\* request order
FileWantResponse(ids, all_file_ids) ==
    SelectSeq(ids, LAMBDA f : f \in all_file_ids)

\* a resolver whose catalog holds descriptors of the ids of S
CatalogWith(S) ==
    /\ need_resolve = {}
    /\ peers_have = [f \in Files |-> [present |-> FALSE, list |-> <<>>]]
    /\ to_resolve = <<>>
    /\ to_index = <<>>
    /\ file_db = {[id |-> f, local_path |-> LocalPath(f)] : f \in S}
    /\ file_tasks = <<>>
    /\ want_tasks = {}
    /\ timers = [f \in Files |-> 0]
    /\ up = FilePeers
    /\ file_rows = <<>>
    /\ file_events = {}
    /\ index_pending = <<>>
    /\ marks = 0
    /\ dropped = {}

InitWant ==
    /\ NewStore
    /\ NewPool
    /\ NewSync
    /\ \E S \in SUBSET WantIds : CatalogWith(S)
    /\ NewQueue
    /\ NewConn

\* StreamProtocol::read_request: a FileWantRequest arrives on a fresh stream
RecvFileWant ==
    /\ stream.st = "idle"
    /\ \E ids \in BoundedSeq(WantIds, MaxIds) :
          stream' = [st |-> "want", file_id |-> ids]
    /\ UNCHANGED <<db, cur_counter, cnt, pending, assigned, peer_db, indexed,
                   events, tasks, faults>>
    /\ UNCHANGED <<poolVars, syncVars, fileVars, workVars, connVars>>

\* SyncEngine::handle_request, FileWantRequest variant: the response and EOF,
\* or nothing when the catalog cannot be read
HandleFileWant ==
    /\ stream.st = "want"
    /\ \E ok \in StoreOutcomes :
          /\ faults' = IF ok THEN faults ELSE faults + 1
          /\ stream' = [st |-> "want_done", file_id |-> stream.file_id,
                        out |-> IF ok
                                THEN <<[t |-> "FileWantResponse",
                                        file_id |-> FileWantResponse(stream.file_id,
                                                                     CatalogIds)],
                                       [t |-> "EOF"]>>
                                ELSE <<>>]
    /\ UNCHANGED <<db, cur_counter, cnt, pending, assigned, peer_db, indexed,
                   events, tasks>>
    /\ UNCHANGED <<poolVars, syncVars, fileVars, workVars, connVars>>

NextWant == RecvFileWant \/ HandleFileWant

SpecWant == InitWant /\ [][NextWant]_vars

----------------------------------------------------------------------------
(* The FileDownloadRequest handler: upload_file.                           *)

\* a chunk taken from the start of the file whatever the position
NextChunk_FromStart(file, pos, n) == SubSeq(file, 1, n)

\* buffer[..n] after a read of n bytes at position pos
NextChunk(file, pos, n) == SubSeq(file, pos + 1, pos + n)

\* the byte counts file.read can return with rem bytes left: at least one,
\* at most the buffer
ReadSizes(rem) == 1..(IF rem < BufferLen THEN rem ELSE BufferLen)

DataFrame(chunk) ==
    [t |-> "FileDownloadResponse", chunk |-> chunk, last_chunk |-> FALSE]

FinalFrame == [t |-> "FileDownloadResponse", chunk |-> <<>>, last_chunk |-> TRUE]

\* StreamProtocol::read_request: a FileDownloadRequest for a catalogued file
\* arrives on a fresh stream; the file on disk holds the bytes of `file`
RecvDownload ==
    /\ stream.st = "idle"
    /\ \E file \in BoundedSeq(Bytes, MaxFile) :
          stream' = [st |-> "upload", file |-> file, pos |-> 0, out |-> <<>>]
    /\ UNCHANGED <<db, cur_counter, cnt, pending, assigned, peer_db, indexed,
                   events, tasks, faults>>
    /\ UNCHANGED <<poolVars, syncVars, fileVars, workVars, connVars>>

\* one iteration of the loop of upload_file: a read that fails ends the
\* handler, a read of n > 0 bytes writes a data frame, a read of 0 bytes
\* writes the final frame and EOF
UploadStep ==
    /\ stream.st = "upload"
    /\ \E ok \in StoreOutcomes :
          /\ faults' = IF ok THEN faults ELSE faults + 1
          /\ IF ~ok
             THEN stream' = [stream EXCEPT !.st = "upload_failed"]
             ELSE IF stream.pos = Len(stream.file)
             THEN stream' = [stream EXCEPT
                                !.st = "upload_done",
                                !.out = @ \o <<FinalFrame, [t |-> "EOF"]>>]
             ELSE \E n \in ReadSizes(Len(stream.file) - stream.pos) :
                     stream' = [stream EXCEPT
                                   !.pos = @ + n,
                                   !.out = Append(@, DataFrame(
                                              NextChunk(stream.file, stream.pos, n)))]
    /\ UNCHANGED <<db, cur_counter, cnt, pending, assigned, peer_db, indexed,
                   events, tasks>>
    /\ UNCHANGED <<poolVars, syncVars, fileVars, workVars, connVars>>

NextUpload == RecvDownload \/ UploadStep

SpecUpload == InitLog /\ [][NextUpload]_vars

----------------------------------------------------------------------------
(* The request queue (request_queue.rs).                                   *)

\* a channel that keeps the item it hands out
AfterRecv_Keep(q) == q

\* flume recv_async: the item handed to a receiver leaves the channel
AfterRecv(q) == Tail(q)

\* the ways the timeout(30 s, request.run()) of worker_loop can end
RunOutcomes == {"ok", "err", "timeout"}

\* RequestQueue::enqueue: the task number Len(ran) + 1 enters the channel
Enqueue ==
    /\ Len(ran) < MaxTasks
    /\ rq' = Append(rq, Len(ran) + 1)
    /\ ran' = Append(ran, 0)
    /\ ended' = Append(ended, <<>>)
    /\ UNCHANGED <<sent, workers, sched>>
    /\ UNCHANGED <<logVars, poolVars, syncVars, fileVars, connVars>>

\* worker_loop: a waiting worker receives the oldest task and starts it
Take(w) ==
    /\ workers[w] = 0
    /\ rq # <<>>
    /\ workers' = [workers EXCEPT ![w] = Head(rq)]
    /\ ran' = [ran EXCEPT ![Head(rq)] = @ + 1]
    /\ rq' = AfterRecv(rq)
    /\ UNCHANGED <<sent, ended, sched>>
    /\ UNCHANGED <<logVars, poolVars, syncVars, fileVars, connVars>>

\* a worker slot: 0 waits on the channel, Stopped has left its loop
Stopped == 0 - 1

WorkerAfter_StopOnFailure(o) == IF o = "ok" THEN 0 ELSE Stopped

\* worker_loop: the three arms of the match on the timed run only log; the
\* while loop goes on to the next recv_async whatever the outcome was
WorkerAfter(o) == 0

\* worker_loop: the run ends with Ok, with an error or by the timeout; the
\* outcome is logged and the worker waits for the next task
Finish(w) ==
    /\ workers[w] > 0
    /\ \E o \in RunOutcomes :
          /\ ended' = [ended EXCEPT ![workers[w]] = Append(@, o)]
          /\ workers' = [workers EXCEPT ![w] = WorkerAfter(o)]
    /\ UNCHANGED <<sent, rq, ran, sched>>
    /\ UNCHANGED <<logVars, poolVars, syncVars, fileVars, connVars>>

\* PeriodicTaskScheduler::start, a variant that would spawn the action
PcAfterInvoke_Spawned == "tick"

\* PeriodicTaskScheduler::start: the loop awaits the future of task_fn()
PcAfterInvoke == "await"

\* a period of the interval elapses (missed ticks are kept: Burst)
TickElapses ==
    /\ sched.due < MaxDue
    /\ sched' = [sched EXCEPT !.due = @ + 1]
    /\ UNCHANGED <<sent, rq, workers, ran, ended>>
    /\ UNCHANGED <<logVars, poolVars, syncVars, fileVars, connVars>>

\* interval.tick().await completes and task_fn() is called
Invoke ==
    /\ sched.pc = "tick"
    /\ sched.due > 0
    /\ Len(sched.log) + sched.running < MaxRuns
    /\ sched' = [sched EXCEPT !.pc = PcAfterInvoke, !.due = @ - 1,
                              !.running = @ + 1]
    /\ UNCHANGED <<sent, rq, workers, ran, ended>>
    /\ UNCHANGED <<logVars, poolVars, syncVars, fileVars, connVars>>

\* the future of task_fn() completes with Ok or Err; Err is logged and the
\* loop goes back to interval.tick()
Return ==
    /\ sched.running > 0
    /\ \E o \in {"ok", "err"} :
          sched' = [sched EXCEPT !.pc = "tick", !.running = @ - 1,
                                 !.log = Append(@, o)]
    /\ UNCHANGED <<sent, rq, workers, ran, ended>>
    /\ UNCHANGED <<logVars, poolVars, syncVars, fileVars, connVars>>

NextSched ==
    \/ TickElapses
    \/ Invoke
    \/ Return

\* the loop runs on, and the action of every invocation completes
SpecSched ==
    /\ InitLog
    /\ [][NextSched]_vars
    /\ WF_vars(Invoke)
    /\ WF_vars(Return)

NextQueue ==
    \/ Enqueue
    \/ \E w \in 1..WorkerCount : Take(w)
    \/ \E w \in 1..WorkerCount : Finish(w)

\* every worker loop keeps running, and a run ends within the timeout
SpecQueue ==
    /\ InitLog
    /\ [][NextQueue]_vars
    /\ \A w \in 1..WorkerCount : WF_vars(Take(w)) /\ WF_vars(Finish(w))

----------------------------------------------------------------------------
(* The handshake (handshake.rs) of a dialer D and an acceptor A on the two *)
(* ends of one stream.  Key material is symbolic: an X25519 secret is a    *)
(* number, its public key Pub(s), an Ed25519 signature the pair of the     *)
(* signing key and the signed bytes.  The bytes in transit can be altered  *)
(* by a third party M, which has a long-term key and an ephemeral secret   *)
(* of its own and has seen every signature written to the stream.          *)

LongKeys == {"D", "A", "M"}
DSecret == 1
ASecret == 2
MSecret == 3
Secrets == {DSecret, ASecret, MSecret}

\* x25519_dalek::PublicKey::from(&secret)
Pub(s) == <<"pub", s>>

Pubs == {Pub(s) : s \in Secrets}

\* StaticSecret::diffie_hellman: the same value from either side's secret
\* and the other side's public key
DiffieHellman(s, pk) == {s, pk[2]}

\* Hkdf::<Sha256>::new(None, shared).expand(DERIVATION_TEXT)
Hkdf(shared) == <<"hkdf", shared, "p2p-chat">>

\* the transcript: the dialer's ephemeral key followed by the acceptor's
Transcript(d_pk, a_pk) == <<d_pk, a_pk>>

\* SigningKey::sign
Sign(key, bytes) == [by |-> key, over |-> bytes]

\* VerifyingKey::from_bytes and verify
Verify(vk, bytes, sig) ==
    /\ vk \in LongKeys
    /\ sig.by = vk
    /\ sig.over = bytes

\* write_handshake: the dialer writes its ephemeral public key
WriteHello ==
    /\ hs.dpc = "start"
    /\ hs' = [hs EXCEPT !.dpc = "reply",
                        !.toA = Append(@, [eph |-> Pub(DSecret)])]
    /\ UNCHANGED <<es, pr, rpc, dl, mg, er>>
    /\ UNCHANGED <<logVars, poolVars, syncVars, fileVars, workVars>>

\* read_handshake up to its flush: the acceptor reads 32 bytes, signs the
\* transcript and writes its ephemeral key, its verifying key and the
\* signature
ReadHello ==
    /\ hs.apc = "hello"
    /\ hs.toA # <<>>
    /\ LET their == Head(hs.toA).eph
           sig == Sign("A", Transcript(their, Pub(ASecret)))
       IN  hs' = [hs EXCEPT !.apc = "reply",
                            !.a_eph = their,
                            !.toA = Tail(@),
                            !.toD = Append(@, [eph |-> Pub(ASecret),
                                               vk |-> "A", sig |-> sig]),
                            !.seen = @ \cup {sig}]
    /\ UNCHANGED <<es, pr, rpc, dl, mg, er>>
    /\ UNCHANGED <<logVars, poolVars, syncVars, fileVars, workVars>>

\* write_handshake after the acceptor's reply arrived: verify, then sign
\* and write the dialer's verifying key and signature, derive the key
WriteFinish ==
    /\ hs.dpc = "reply"
    /\ hs.toD # <<>>
    /\ LET m == Head(hs.toD)
           transcript == Transcript(Pub(DSecret), m.eph)
           sig == Sign("D", transcript)
       IN  IF Verify(m.vk, transcript, m.sig)
           THEN hs' = [hs EXCEPT !.dpc = "done",
                                 !.toD = Tail(@),
                                 !.toA = Append(@, [vk |-> "D", sig |-> sig]),
                                 !.seen = @ \cup {sig},
                                 !.d_eph = m.eph,
                                 !.d_sig = m.sig,
                                 !.d_their = m.vk,
                                 !.d_key = Hkdf(DiffieHellman(DSecret, m.eph))]
           ELSE hs' = [hs EXCEPT !.dpc = "failed", !.toD = Tail(@)]
    /\ UNCHANGED <<es, pr, rpc, dl, mg, er>>
    /\ UNCHANGED <<logVars, poolVars, syncVars, fileVars, workVars>>

\* read_handshake after its flush: read the dialer's verifying key and
\* signature, verify them over the transcript, derive the key
ReadFinish ==
    /\ hs.apc = "reply"
    /\ hs.toA # <<>>
    /\ LET m == Head(hs.toA)
           transcript == Transcript(hs.a_eph, Pub(ASecret))
       IN  IF Verify(m.vk, transcript, m.sig)
           THEN hs' = [hs EXCEPT !.apc = "done",
                                 !.toA = Tail(@),
                                 !.a_sig = m.sig,
                                 !.a_their = m.vk,
                                 !.a_key = Hkdf(DiffieHellman(ASecret, hs.a_eph))]
           ELSE hs' = [hs EXCEPT !.apc = "failed", !.toA = Tail(@)]
    /\ UNCHANGED <<es, pr, rpc, dl, mg, er>>
    /\ UNCHANGED <<logVars, poolVars, syncVars, fileVars, workVars>>

\* 64 bytes that are no signature of any key
BadSig == [by |-> "bad", over |-> Transcript(Pub(MSecret), Pub(MSecret))]

\* the signatures M can put on the stream: its own over any transcript, the
\* ones it has seen, and bytes that verify under no key
Forgeable == {Sign("M", t) : t \in Pubs \X Pubs} \cup hs.seen \cup {BadSig}

\* the values M can put in place of the oldest bytes in transit
Altered(m) ==
    IF "vk" \notin DOMAIN m
    THEN {[eph |-> e] : e \in Pubs}
    ELSE IF "eph" \in DOMAIN m
    THEN [eph : Pubs, vk : LongKeys \cup {"bad"}, sig : Forgeable]
    ELSE [vk : LongKeys \cup {"bad"}, sig : Forgeable]

\* bytes on their way to the acceptor are altered
AlterToA ==
    /\ hs.alters < MaxAlters
    /\ hs.toA # <<>>
    /\ \E m \in Altered(Head(hs.toA)) \ {Head(hs.toA)} :
          hs' = [hs EXCEPT !.toA = <<m>> \o Tail(@), !.alters = @ + 1]
    /\ UNCHANGED <<es, pr, rpc, dl, mg, er>>
    /\ UNCHANGED <<logVars, poolVars, syncVars, fileVars, workVars>>

\* bytes on their way to the dialer are altered
AlterToD ==
    /\ hs.alters < MaxAlters
    /\ hs.toD # <<>>
    /\ \E m \in Altered(Head(hs.toD)) \ {Head(hs.toD)} :
          hs' = [hs EXCEPT !.toD = <<m>> \o Tail(@), !.alters = @ + 1]
    /\ UNCHANGED <<es, pr, rpc, dl, mg, er>>
    /\ UNCHANGED <<logVars, poolVars, syncVars, fileVars, workVars>>

NextShake ==
    \/ WriteHello
    \/ ReadHello
    \/ WriteFinish
    \/ ReadFinish
    \/ AlterToA
    \/ AlterToD

SpecShake == InitLog /\ [][NextShake]_vars

----------------------------------------------------------------------------
(* One direction of an EncryptedStream (conn.rs).  A plaintext is known by *)
(* the number of the write that gave it and by its length; a frame on the  *)
(* wire by its two length bytes, its nonce, and the write its ciphertext   *)
(* and tag come from.                                                      *)

NONCE_SIZE == 12
\* the tag that Aes256Gcm::encrypt appends to the ciphertext
TagSize == 16
\* frame_len is cast to u16
U16 == 65536

\* the lengths of the plaintexts given to poll_write
WriteLens == {0, 1, 3, 65508}
\* buf.remaining() of a poll_read
ReadCaps == {1, 2}

\* poll_write: (NONCE_SIZE + ciphertext.len()) as u16
FrameLen(n) == (NONCE_SIZE + n + TagSize) % U16

\* poll_write, both states: the frame of one plaintext goes to the wire
\* whole; size is the number of bytes that follow the two length bytes
PollWrite(n) ==
    /\ Len(es.written) < MaxWrites
    /\ LET w == Len(es.written) + 1
           frame == [frame_len |-> FrameLen(n), size |-> NONCE_SIZE + n + TagSize,
                     w |-> w, len |-> n, intact |-> TRUE, altered |-> FALSE]
       IN  es' = [es EXCEPT !.written = Append(@, n),
                            !.wire = Append(@, frame)]
    /\ UNCHANGED <<hs, pr, rpc, dl, mg, er>>
    /\ UNCHANGED <<logVars, poolVars, syncVars, fileVars, workVars>>

\* poll_read, the first branch: bytes of decrypted_buffer go to the caller
Surface(c, cap) ==
    LET k == IF c.left < cap THEN c.left ELSE cap
    IN  [c EXCEPT !.left = @ - k, !.out[Len(c.out)].n = @ + k]

\* poll_read, ReadingLength and ReadingFrame for the frame at the head of
\* the wire: the result is "pending" when the bytes of the frame have not
\* all arrived, "error", or "ok" with the plaintext in decrypted_buffer
Decode(c) ==
    LET f == Head(c.wire)
        rest == Tail(c.wire)
    IN  IF f.frame_len < NONCE_SIZE
        THEN [c EXCEPT !.read_state = "error", !.wire = rest]
        ELSE IF f.frame_len > f.size /\ rest = <<>>
        THEN [c EXCEPT !.read_state = "pending"]
        ELSE IF f.frame_len # f.size \/ ~f.intact
        THEN [c EXCEPT !.read_state = "error", !.wire = rest]
        ELSE [c EXCEPT !.read_state = "length", !.wire = rest,
                       !.left = f.len,
                       !.out = IF f.len = 0 THEN @
                               ELSE Append(@, [w |-> f.w, n |-> 0,
                                               altered |-> f.altered])]

RECURSIVE ReadLoop(_, _)
\* poll_read: the loop
ReadLoop(c, cap) ==
    IF c.left > 0 THEN Surface(c, cap)
    ELSE IF c.wire = <<>> THEN c
    ELSE LET d == Decode(c)
         IN  IF d.read_state = "length" THEN ReadLoop(d, cap) ELSE d

\* poll_read with room for cap bytes; after an error the stream is not
\* read again
PollRead(cap) ==
    /\ es.read_state # "error"
    /\ es.left > 0 \/ es.wire # <<>>
    /\ es' = ReadLoop([es EXCEPT !.read_state = "length"], cap)
    /\ UNCHANGED <<hs, pr, rpc, dl, mg, er>>
    /\ UNCHANGED <<logVars, poolVars, syncVars, fileVars, workVars>>

\* what the bytes of frame f can be changed into in transit: other length
\* bytes, another nonce, ciphertext or tag, or the bytes of a frame of the
\* same size that was written under the same key
Changed(f) ==
    {[f EXCEPT !.frame_len = l, !.altered = TRUE] :
        l \in {NONCE_SIZE - 1, f.frame_len - 1, f.frame_len + 1} \cap 0..(U16 - 1)}
    \cup {[f EXCEPT !.intact = FALSE, !.altered = TRUE]}
    \cup {[f EXCEPT !.w = v, !.altered = TRUE] :
            v \in {u \in 1..Len(es.written) :
                       u # f.w /\ es.written[u] = f.len}}

\* bytes of the i-th frame in transit are altered
AlterFrame(i) ==
    /\ es.changed < MaxAlters
    /\ i \in 1..Len(es.wire)
    /\ ~es.wire[i].altered
    /\ \E g \in Changed(es.wire[i]) :
          es' = [es EXCEPT !.wire[i] = g, !.changed = @ + 1]
    /\ UNCHANGED <<hs, pr, rpc, dl, mg, er>>
    /\ UNCHANGED <<logVars, poolVars, syncVars, fileVars, workVars>>

NextStream ==
    \/ \E n \in WriteLens : PollWrite(n)
    \/ \E cap \in ReadCaps : PollRead(cap)
    \/ \E i \in 1..Len(es.wire) : AlterFrame(i)

SpecStream == InitLog /\ [][NextStream]_vars

----------------------------------------------------------------------------
(* The reading end of an EncryptedStream whose transport reaches its end   *)
(* (conn.rs): bytes arrive in pieces of any size, the stream may end       *)
(* anywhere.                                                               *)

\* the lengths of the plaintexts the peer wrote
EofLens == {0, 1}

\* the bytes of the frames with the given frame_len values on the wire
RECURSIVE WireSize(_)
WireSize(frames) ==
    IF frames = <<>> THEN 0 ELSE 2 + Head(frames) + WireSize(Tail(frames))

\* the peer has written whole frames; the transport carries the first
\* `cut` bytes of them and then ends
PeerWrote ==
    /\ er.pc = "new"
    /\ \E lens \in BoundedSeq(EofLens, MaxFrames) :
          LET frames == [i \in DOMAIN lens |-> FrameLen(lens[i])]
          IN  \E cut \in 0..WireSize(frames) :
                 er' = [er EXCEPT !.pc = "idle", !.wire = cut, !.ahead = frames]
    /\ UNCHANGED <<hs, es, pr, rpc, dl, mg>>
    /\ UNCHANGED <<logVars, poolVars, syncVars, fileVars, workVars>>

\* poll_read is called with room for cap bytes
CallRead(cap) ==
    /\ er.pc = "idle"
    /\ er.ret # "error"
    /\ er.reads < MaxReads
    /\ er' = [er EXCEPT !.pc = "loop", !.cap = cap, !.reads = @ + 1,
                        !.spins = 0]
    /\ UNCHANGED <<hs, es, pr, rpc, dl, mg>>
    /\ UNCHANGED <<logVars, poolVars, syncVars, fileVars, workVars>>

\* the iteration of the loop calls read_more
NeedsMore(r) ==
    /\ r.decrypted_buffer = 0
    /\ \/ r.read_state = "length" /\ r.read_buffer < 2
       \/ r.read_state = "frame" /\ r.read_buffer < r.frame_len

\* read_more: the number of bytes the transport hands over; 0 when it has
\* reached its end
ReadMoreSizes(r) == IF r.wire = 0 THEN {0} ELSE 1..r.wire

\* one iteration that calls read_more and gets n bytes: lines 95-99 in
\* ReadingLength, lines 114-121 in ReadingFrame
AfterReadMore(r, n) ==
    LET got == [r EXCEPT !.read_buffer = @ + n, !.wire = @ - n]
    IN  IF got.read_state = "length"
        THEN IF n = 0 /\ got.read_buffer = 0
             THEN [got EXCEPT !.pc = "idle", !.ret = "eof"]
             ELSE [got EXCEPT !.spins = IF n = 0 THEN @ + 1 ELSE 0]
        ELSE IF n = 0 /\ got.read_buffer < got.frame_len
             THEN [got EXCEPT !.pc = "idle", !.ret = "error"]
             ELSE [got EXCEPT !.spins = IF n = 0 THEN @ + 1 ELSE 0]

\* one iteration that does not call read_more: decrypted bytes go to the
\* caller (lines 85-89), the length bytes are split off (101-109), or the
\* frame is split off and decrypted (124-132)
AfterBuffered(r) ==
    IF r.decrypted_buffer > 0
    THEN LET k == IF r.decrypted_buffer < r.cap THEN r.decrypted_buffer ELSE r.cap
         IN  [r EXCEPT !.decrypted_buffer = @ - k, !.pc = "idle", !.ret = "data"]
    ELSE IF r.read_state = "length"
    THEN IF Head(r.ahead) < NONCE_SIZE
         THEN [r EXCEPT !.read_buffer = @ - 2, !.ahead = Tail(@),
                        !.pc = "idle", !.ret = "error"]
         ELSE [r EXCEPT !.read_buffer = @ - 2, !.ahead = Tail(@),
                        !.frame_len = Head(r.ahead), !.read_state = "frame"]
    ELSE [r EXCEPT !.read_buffer = @ - r.frame_len,
                   !.decrypted_buffer = r.frame_len - NONCE_SIZE - TagSize,
                   !.read_state = "length"]

\* one iteration of the loop of poll_read
ReadIteration ==
    /\ er.pc = "loop"
    /\ er.spins < MaxSpins
    /\ IF NeedsMore(er)
       THEN \E n \in ReadMoreSizes(er) : er' = AfterReadMore(er, n)
       ELSE er' = AfterBuffered(er)
    /\ UNCHANGED <<hs, es, pr, rpc, dl, mg>>
    /\ UNCHANGED <<logVars, poolVars, syncVars, fileVars, workVars>>

\* read_more finds the transport not ready: bytes are on their way;
\* ready! returns Poll::Pending and the task is woken when they arrive
ReadPending ==
    /\ er.pc = "loop"
    /\ NeedsMore(er)
    /\ er.wire > 0
    /\ er' = [er EXCEPT !.pc = "idle", !.ret = "pending"]
    /\ UNCHANGED <<hs, es, pr, rpc, dl, mg>>
    /\ UNCHANGED <<logVars, poolVars, syncVars, fileVars, workVars>>

NextEof ==
    \/ PeerWrote
    \/ \E cap \in ReadCaps : CallRead(cap)
    \/ ReadIteration
    \/ ReadPending

SpecEof == InitLog /\ [][NextEof]_vars

----------------------------------------------------------------------------
(* One Peer (peer.rs): the session mutex, the accept loop spawned by       *)
(* start_inbound_loop and the callers of open_stream.  A tokio Mutex hands *)
(* the lock to its waiters in the order in which they asked for it.        *)

\* the accept loop as a holder of a mutex; the callers are 1..OpenerCount
LoopId == OpenerCount + 1

\* Mutex::lock is called by `who`: the lock is taken if it is free and
\* nobody waits, otherwise the caller joins the queue
Acquire(m, who) ==
    IF m.owner = 0 /\ m.q = <<>>
    THEN [owner |-> who, q |-> <<>>]
    ELSE [owner |-> m.owner, q |-> Append(m.q, who)]

\* the guard is dropped: the lock passes to the first waiter
Release(m) ==
    IF m.q = <<>>
    THEN [owner |-> 0, q |-> <<>>]
    ELSE [owner |-> Head(m.q), q |-> Tail(m.q)]

\* a sender whose value the receivers never get to see
WatchSend_Dropped(changed) == changed

\* watch::Sender::send: the channel holds a value its receivers have not seen
WatchSend(changed) == TRUE

\* the accept loop holds the session and is in its select!
InSelect == pr.loop = "session" /\ pr.session.owner = LoopId

\* start_inbound_loop line 79: session.lock().await
LoopLock ==
    /\ pr.loop = "top"
    /\ pr' = [pr EXCEPT !.loop = "session", !.session = Acquire(@, LoopId)]
    /\ UNCHANGED <<hs, es, rpc, dl, mg, er>>
    /\ UNCHANGED <<logVars, poolVars, syncVars, fileVars, workVars>>

\* line 81: rx.changed() completes, the value counts as seen
LoopChanged ==
    /\ InSelect
    /\ pr.changed
    /\ pr' = [pr EXCEPT !.loop = "woken", !.changed = FALSE]
    /\ UNCHANGED <<hs, es, rpc, dl, mg, er>>
    /\ UNCHANGED <<logVars, poolVars, syncVars, fileVars, workVars>>

\* lines 82-83: borrow_and_update and drop(sess)
LoopRelease ==
    /\ pr.loop = "woken"
    /\ pr' = [pr EXCEPT !.loop = "dropped", !.changed = FALSE,
                        !.session = Release(@)]
    /\ UNCHANGED <<hs, es, rpc, dl, mg, er>>
    /\ UNCHANGED <<logVars, poolVars, syncVars, fileVars, workVars>>

\* line 84: open_lock.lock().await
LoopOpenLock ==
    /\ pr.loop = "dropped"
    /\ pr' = [pr EXCEPT !.loop = "open_lock", !.open_lock = Acquire(@, LoopId)]
    /\ UNCHANGED <<hs, es, rpc, dl, mg, er>>
    /\ UNCHANGED <<logVars, poolVars, syncVars, fileVars, workVars>>

\* line 85: continue drops the guard of open_lock
LoopContinue ==
    /\ pr.loop = "open_lock"
    /\ pr.open_lock.owner = LoopId
    /\ pr' = [pr EXCEPT !.loop = "top", !.open_lock = Release(@)]
    /\ UNCHANGED <<hs, es, rpc, dl, mg, er>>
    /\ UNCHANGED <<logVars, poolVars, syncVars, fileVars, workVars>>

\* lines 87-97: sess.next() yields an inbound stream, the delegate is handed
\* it, and the iteration ends (sess is dropped)
LoopAccept ==
    /\ InSelect
    /\ pr.accepted < MaxStreams
    /\ pr' = [pr EXCEPT !.loop = "top", !.accepted = @ + 1,
                        !.session = Release(@)]
    /\ UNCHANGED <<hs, es, rpc, dl, mg, er>>
    /\ UNCHANGED <<logVars, poolVars, syncVars, fileVars, workVars>>

\* lines 98-110: sess.next() yields an error or None; the loop is left and
\* is_alive set to false
LoopEnds ==
    /\ InSelect
    /\ pr' = [pr EXCEPT !.loop = "ended", !.is_alive = FALSE,
                        !.session = Release(@)]
    /\ UNCHANGED <<hs, es, rpc, dl, mg, er>>
    /\ UNCHANGED <<logVars, poolVars, syncVars, fileVars, workVars>>

\* open_stream line 63: open_lock.lock().await
OpenCall(o) ==
    /\ pr.op[o] = "idle"
    /\ pr.opens < MaxOpens
    /\ pr' = [pr EXCEPT !.op[o] = "open_lock", !.opens = @ + 1,
                        !.open_lock = Acquire(@, o)]
    /\ UNCHANGED <<hs, es, rpc, dl, mg, er>>
    /\ UNCHANGED <<logVars, poolVars, syncVars, fileVars, workVars>>

\* line 64: tx.send(1); the Peer keeps a receiver, so send does not fail
OpenSend(o) ==
    /\ pr.op[o] = "open_lock"
    /\ pr.open_lock.owner = o
    /\ pr' = [pr EXCEPT !.op[o] = "sent", !.changed = WatchSend(@)]
    /\ UNCHANGED <<hs, es, rpc, dl, mg, er>>
    /\ UNCHANGED <<logVars, poolVars, syncVars, fileVars, workVars>>

\* line 65: session.lock().await
OpenLockSession(o) ==
    /\ pr.op[o] = "sent"
    /\ pr' = [pr EXCEPT !.op[o] = "session", !.session = Acquire(@, o)]
    /\ UNCHANGED <<hs, es, rpc, dl, mg, er>>
    /\ UNCHANGED <<logVars, poolVars, syncVars, fileVars, workVars>>

\* lines 66-71: sess.open_stream() returns a stream or an error (is_alive is
\* then set to false); the call returns and both guards are dropped
OpenReturn(o) ==
    /\ pr.op[o] = "session"
    /\ pr.session.owner = o
    /\ \E ok \in BOOLEAN :
          pr' = [pr EXCEPT !.op[o] = "idle",
                           !.is_alive = IF ok THEN @ ELSE FALSE,
                           !.session = Release(@),
                           !.open_lock = Release(@)]
    /\ UNCHANGED <<hs, es, rpc, dl, mg, er>>
    /\ UNCHANGED <<logVars, poolVars, syncVars, fileVars, workVars>>

NextPeer ==
    \/ LoopLock
    \/ LoopChanged
    \/ LoopRelease
    \/ LoopOpenLock
    \/ LoopContinue
    \/ LoopAccept
    \/ LoopEnds
    \/ \E o \in 1..OpenerCount : OpenCall(o)
    \/ \E o \in 1..OpenerCount : OpenSend(o)
    \/ \E o \in 1..OpenerCount : OpenLockSession(o)
    \/ \E o \in 1..OpenerCount : OpenReturn(o)

\* the runtime runs every task that can go on: the steps of the loop and of
\* a call in progress are fair; when a call is made, an inbound stream
\* arrives or the session ends is up to the callers and the remote
SpecPeer ==
    /\ InitLog
    /\ [][NextPeer]_vars
    /\ WF_vars(LoopLock)
    /\ WF_vars(LoopChanged)
    /\ WF_vars(LoopRelease)
    /\ WF_vars(LoopOpenLock)
    /\ WF_vars(LoopContinue)
    /\ \A o \in 1..OpenerCount : /\ WF_vars(OpenSend(o))
                                  /\ WF_vars(OpenLockSession(o))
                                  /\ WF_vars(OpenReturn(o))

----------------------------------------------------------------------------
(* One RPC on one stream (stream_protocol.rs, SyncEngine::handle_request). *)
(* A frame is its tag byte, its four length bytes and its payload, which   *)
(* is known by the name of the message it encodes.                         *)

REQUEST_FRAME == 1
RESPONSE_FRAME == 2

\* u32::to_be_bytes of a length below 2^16
ToBeBytes(n) == <<0, 0, n \div 256, n % 256>>

\* 0xFFFF_FFFFu32.to_be_bytes()
EofLength == <<255, 255, 255, 255>>

\* the encoded lengths a payload can have
PayloadSizes == {2, 300}

\* the requests handle_request answers with one response, and what it
\* answers each with
RpcKinds == {"Messages", "FileWantRequest", "BatchMessageRequest", "CompareRequest"}

ResponseOf(req) ==
    CASE req = "Messages" -> "MessageAccept"
      [] req = "FileWantRequest" -> "FileWantResponse"
      [] req = "BatchMessageRequest" -> "BatchMessageResponse"
      [] req = "CompareRequest" -> "CompareResponse"

\* the variants a remote can put into its first frame: a request, or a
\* message that is no request
SentVariants == RpcKinds \cup {"MessageAccept"}

\* an end-of-stream marker written with the tag of a request
EofFrame_RequestTag == [tag |-> REQUEST_FRAME, len |-> EofLength, payload |-> ""]

\* StreamProtocol::send_eof
EofFrame == [tag |-> RESPONSE_FRAME, len |-> EofLength, payload |-> ""]

\* StreamProtocol::read_response on a frame
ReadResponse(f) ==
    IF f.tag # RESPONSE_FRAME THEN "err"
    ELSE IF f.len = EofLength THEN "none"
    ELSE f.payload

\* the remote writes its first frame; send_request writes REQUEST_FRAME
SendRequest(variant, tag, n) ==
    /\ rpc.caller = "start"
    /\ rpc' = [rpc EXCEPT !.caller = "await",
                          !.up = <<[tag |-> tag, len |-> ToBeBytes(n),
                                    payload |-> variant]>>]
    /\ UNCHANGED <<hs, es, pr, dl, mg, er>>
    /\ UNCHANGED <<logVars, poolVars, syncVars, fileVars, workVars>>

\* handle_request line 151: read_request
ReadRequest ==
    /\ rpc.callee = "read"
    /\ rpc.up # <<>>
    /\ rpc' = IF rpc.up[1].tag # REQUEST_FRAME
              THEN [rpc EXCEPT !.callee = "failed"]
              ELSE [rpc EXCEPT !.callee = "handle", !.req = rpc.up[1].payload]
    /\ UNCHANGED <<hs, es, pr, dl, mg, er>>
    /\ UNCHANGED <<logVars, poolVars, syncVars, fileVars, workVars>>

\* handle_request lines 153-282 up to send_response: the match arm of the
\* request runs its storage calls; an error of one of them, and a variant
\* that is no request, end the handler
Handle ==
    /\ rpc.callee = "handle"
    /\ \E ok \in StoreOutcomes :
          /\ rpc' = [rpc EXCEPT !.callee = IF rpc.req \in RpcKinds /\ ok
                                           THEN "respond" ELSE "failed"]
          /\ faults' = IF ok THEN faults ELSE faults + 1
    /\ UNCHANGED <<db, cur_counter, cnt, pending, assigned, peer_db, indexed,
                   events, tasks, stream>>
    /\ UNCHANGED <<hs, es, pr, dl, mg, er>>
    /\ UNCHANGED <<poolVars, syncVars, fileVars, workVars>>

\* StreamProtocol::send_response
SendResponse(n) ==
    /\ rpc.callee = "respond"
    /\ rpc' = [rpc EXCEPT !.callee = "eof",
                          !.down = Append(@, [tag |-> RESPONSE_FRAME,
                                              len |-> ToBeBytes(n),
                                              payload |-> ResponseOf(rpc.req)])]
    /\ UNCHANGED <<hs, es, pr, dl, mg, er>>
    /\ UNCHANGED <<logVars, poolVars, syncVars, fileVars, workVars>>

\* StreamProtocol::send_eof, then return Ok(())
SendEof ==
    /\ rpc.callee = "eof"
    /\ rpc' = [rpc EXCEPT !.callee = "done", !.down = Append(@, EofFrame)]
    /\ UNCHANGED <<hs, es, pr, dl, mg, er>>
    /\ UNCHANGED <<logVars, poolVars, syncVars, fileVars, workVars>>

\* the caller's read_response gets the next frame of the callee
ReadFrame ==
    /\ rpc.caller = "await"
    /\ rpc.rd < Len(rpc.down)
    /\ LET res == ReadResponse(rpc.down[rpc.rd + 1])
       IN  rpc' = [rpc EXCEPT !.rd = @ + 1, !.got = Append(@, res),
                              !.caller = IF res \in {"none", "err"}
                                         THEN "done" ELSE "await"]
    /\ UNCHANGED <<hs, es, pr, dl, mg, er>>
    /\ UNCHANGED <<logVars, poolVars, syncVars, fileVars, workVars>>

\* the caller's read_response finds the stream shut down by the callee
\* (StreamProtocol::drop): read_exact fails
ReadClosed ==
    /\ rpc.caller = "await"
    /\ rpc.rd = Len(rpc.down)
    /\ rpc.callee \in {"done", "failed"}
    /\ rpc' = [rpc EXCEPT !.got = Append(@, "err"), !.caller = "done"]
    /\ UNCHANGED <<hs, es, pr, dl, mg, er>>
    /\ UNCHANGED <<logVars, poolVars, syncVars, fileVars, workVars>>

NextRpc ==
    \/ \E variant \in SentVariants, tag \in {REQUEST_FRAME, RESPONSE_FRAME},
          n \in PayloadSizes : SendRequest(variant, tag, n)
    \/ ReadRequest
    \/ Handle
    \/ \E n \in PayloadSizes : SendResponse(n)
    \/ SendEof
    \/ ReadFrame
    \/ ReadClosed

SpecRpc == InitLog /\ [][NextRpc]_vars

----------------------------------------------------------------------------
(* The locks of the RepositoryManager (repository_manager.rs).             *)

\* get_or_create_repository: the repositories map is locked for the lookup
\* (and Repository::new) and released on return
GetRepository == <<<<"lock", "map">>, <<"unlock", "map">>>>

\* update_counter / update_counter_many, called with the repository locked
UpdateOrder == <<<<"lock", "counter">>, <<"unlock", "counter">>>>

\* an add_own_message that keeps counter_lock until it returns
AddOwnProgram_KeepsCounter(stored) ==
    <<<<"lock", "counter">>>> \o GetRepository
        \o <<<<"lock", RepoLock(Me)>>>>
        \o (IF stored THEN UpdateOrder ELSE <<>>)
        \o <<<<"unlock", RepoLock(Me)>>, <<"unlock", "counter">>>>

\* add_own_message: counter_lock is taken and dropped (lines 64-67), then
\* the repository is looked up and locked around save_message, which takes
\* counter_lock again in update_counter when the entry was stored
AddOwnProgram(stored) ==
    UpdateOrder \o GetRepository
        \o <<<<"lock", RepoLock(Me)>>>>
        \o (IF stored THEN UpdateOrder ELSE <<>>)
        \o <<<<"unlock", RepoLock(Me)>>>>

\* the Messages arm of handle_request and BatchRequestTask::run:
\* get_repository, the repository locked around insert_message_batch, which
\* takes counter_lock in update_counter_many when entries were stored
InsertBatchProgram(p, stored) ==
    GetRepository
        \o <<<<"lock", RepoLock(p)>>>>
        \o (IF stored THEN UpdateOrder ELSE <<>>)
        \o <<<<"unlock", RepoLock(p)>>>>

\* the BatchMessageRequest arm of handle_request: the repository is locked
\* around get_counter and get_messages
BatchRequestProgram(p) ==
    GetRepository \o <<<<"lock", RepoLock(p)>>, <<"unlock", RepoLock(p)>>>>

\* get_repo_states: for every peer of get_peers the repository is looked up
\* and locked for get_counter
RepoStatesProgram ==
    BatchRequestProgram("A") \o BatchRequestProgram("B")

\* the lock operations of one operation of the given kind
ProgramOf(kind, p, stored) ==
    CASE kind = "add_own_message" -> AddOwnProgram(stored)
      [] kind \in {"Messages", "BatchRequestTask"} -> InsertBatchProgram(p, stored)
      [] kind = "BatchMessageRequest" -> BatchRequestProgram(p)
      [] OTHER -> RepoStatesProgram

ManagerKinds ==
    {"add_own_message", "Messages", "BatchRequestTask", "BatchMessageRequest",
     "get_repo_states"}

\* operation o is called; whether its append stores entries is fixed by
\* the request and the store
StartOp(o) ==
    /\ mg.op[o] = IdleOp
    /\ \E kind \in ManagerKinds, p \in Peers, stored \in BOOLEAN :
          mg' = [mg EXCEPT !.op[o] = [prog |-> ProgramOf(kind, p, stored),
                                      ip |-> 1, wait |-> FALSE]]
    /\ UNCHANGED <<hs, es, pr, rpc, dl, er>>
    /\ UNCHANGED <<logVars, poolVars, syncVars, fileVars, workVars>>

\* the operation after its instruction at ip is done: it returns after the
\* last one
Advance(op) ==
    IF op.ip = Len(op.prog)
    THEN DoneOp
    ELSE [op EXCEPT !.ip = @ + 1, !.wait = FALSE]

\* one step of an operation: Mutex::lock takes a free mutex at once or
\* queues the caller, a queued caller goes on when the mutex is handed to
\* it, a dropped guard releases the mutex
StepOp(o) ==
    /\ mg.op[o] \notin {IdleOp, DoneOp}
    /\ LET op == mg.op[o]
           what == op.prog[op.ip][1]
           l == op.prog[op.ip][2]
           taken == Acquire(mg.locks[l], o)
       IN  IF what = "unlock"
           THEN mg' = [mg EXCEPT !.locks[l] = Release(@), !.op[o] = Advance(op)]
           ELSE IF op.wait
           THEN /\ mg.locks[l].owner = o
                /\ mg' = [mg EXCEPT !.op[o] = Advance(op)]
           ELSE mg' = [mg EXCEPT !.locks[l] = taken,
                                 !.op[o] = IF taken.owner = o
                                           THEN Advance(op)
                                           ELSE [op EXCEPT !.wait = TRUE]]
    /\ UNCHANGED <<hs, es, pr, rpc, dl, er>>
    /\ UNCHANGED <<logVars, poolVars, syncVars, fileVars, workVars>>

NextManager ==
    \/ \E o \in 1..ManagerOps : StartOp(o)
    \/ \E o \in 1..ManagerOps : StepOp(o)

\* every operation is a task of the runtime and goes on whenever the await
\* it stands at is ready; the storage calls return
SpecManager ==
    /\ InitLog
    /\ [][NextManager]_vars
    /\ \A o \in 1..ManagerOps : WF_vars(StepOp(o))

----------------------------------------------------------------------------
(* FileTask: the download of one file (sync_engine.rs).                    *)

\* what read_response hands to the loop of download_file: a
\* FileDownloadResponse with a chunk, the EOF sentinel, a message of another
\* variant or with no variant, or a stream that broke
DownloadFrames ==
    {[t |-> "FileDownloadResponse", chunk |-> b] : b \in Bytes}
        \cup {[t |-> "EOF", chunk |-> 0], [t |-> "MessageAccept", chunk |-> 0],
              [t |-> "NoVariant", chunk |-> 0], [t |-> "closed", chunk |-> 0]}

\* a loop that takes a broken stream for the end of the file
DownloadRead_ClosedIsEof(frame) ==
    CASE frame.t = "FileDownloadResponse" -> "write"
      [] frame.t \in {"EOF", "closed"} -> "break"
      [] OTHER -> "err"

\* one iteration of the loop of download_file: read_response returns an
\* error when the stream broke, None on the sentinel; a message that is no
\* FileDownloadResponse is an "unexpected response"
DownloadRead(frame) ==
    CASE frame.t = "FileDownloadResponse" -> "write"
      [] frame.t = "EOF" -> "break"
      [] OTHER -> "err"

\* FileTask::run after download_file returned Err: remove_file on the
\* staging path, then the next peer of peer_ids, or a ResolveWant with the
\* failed peers when there is none
AttemptFailed(d, why) ==
    LET e == [d EXCEPT !.staging = FALSE, !.data = <<>>,
                       !.ends = Append(@, [why |-> why, n |-> Len(d.data)])]
    IN  IF d.i < TaskPeers
        THEN [e EXCEPT !.i = @ + 1, !.pc = "get"]
        ELSE [e EXCEPT !.wants = @ + 1, !.pc = "done"]

\* FileTask::run up to the first download_file
StartDownload ==
    /\ dl.pc = "queued"
    /\ dl' = [dl EXCEPT !.pc = "get"]
    /\ UNCHANGED <<hs, es, pr, rpc, mg, er>>
    /\ UNCHANGED <<logVars, poolVars, syncVars, fileVars, workVars>>

\* download_file up to the loop: PeerPool::get, open_stream and
\* send_request fail or succeed; File::create makes an empty staging file
OpenAttempt ==
    /\ dl.pc = "get"
    /\ \E ok \in BOOLEAN :
          dl' = IF ok
                THEN [dl EXCEPT !.pc = "read", !.staging = TRUE, !.data = <<>>,
                                !.last = "none"]
                ELSE AttemptFailed(dl, "open")
    /\ UNCHANGED <<hs, es, pr, rpc, mg, er>>
    /\ UNCHANGED <<logVars, poolVars, syncVars, fileVars, workVars>>

\* one iteration of the loop of download_file
ReadDownload ==
    /\ dl.pc = "read"
    /\ \E frame \in DownloadFrames :
          LET res == DownloadRead(frame)
              d == [dl EXCEPT !.last = frame.t]
          IN  /\ (frame.t = "FileDownloadResponse") => Len(dl.data) < MaxChunks
              /\ dl' = CASE res = "write" ->
                              [d EXCEPT !.data = Append(@, frame.chunk)]
                          [] res = "break" -> [d EXCEPT !.pc = "rename"]
                          [] OTHER -> AttemptFailed(d, frame.t)
    /\ UNCHANGED <<hs, es, pr, rpc, mg, er>>
    /\ UNCHANGED <<logVars, poolVars, syncVars, fileVars, workVars>>

\* download_file after the loop: the staging file is renamed, the
\* descriptor saved; FileTask::run then sends the ResolveResult. When the
\* save fails the renamed file is left and remove_file finds no staging file
FinishDownload ==
    /\ dl.pc = "rename"
    /\ \E ok \in StoreOutcomes :
          LET moved == [dl EXCEPT !.staging = FALSE, !.data = <<>>,
                                  !.renamed = TRUE, !.file = dl.data]
          IN  /\ faults' = IF ok THEN faults ELSE faults + 1
              /\ dl' = IF ok
                        THEN [moved EXCEPT !.desc = TRUE, !.results = @ + 1,
                                           !.pc = "done"]
                        ELSE AttemptFailed(moved, "save")
    /\ UNCHANGED <<db, cur_counter, cnt, pending, assigned, peer_db, indexed,
                   events, tasks, stream>>
    /\ UNCHANGED <<hs, es, pr, rpc, mg, er>>
    /\ UNCHANGED <<poolVars, syncVars, fileVars, workVars>>

\* worker_loop: the timeout elapses while FileTask::run awaits; the future
\* is dropped where it stands
TimeoutDownload ==
    /\ dl.pc \in {"get", "read", "rename"}
    /\ dl' = [dl EXCEPT !.pc = "dropped"]
    /\ UNCHANGED <<hs, es, pr, rpc, mg, er>>
    /\ UNCHANGED <<logVars, poolVars, syncVars, fileVars, workVars>>

NextDownload ==
    \/ StartDownload
    \/ OpenAttempt
    \/ ReadDownload
    \/ FinishDownload
    \/ TimeoutDownload

SpecDownload == InitLog /\ [][NextDownload]_vars

----------------------------------------------------------------------------
(* Properties of the log store.                                            *)

\* the MessageAccept reply, then end of stream, reporting counter c
AcceptThenEof(c) == <<[t |-> "MessageAccept", counter |-> c], [t |-> "EOF"]>>

\* the counters of a batch that lie above c, in batch order
CountersAbove(messages, c) ==
    SelectSeq([i \in 1..Len(messages) |-> messages[i].counter],
              LAMBDA x: x > c)

\* the part of the batch above c is not c+1, c+2, ...
NonContiguousAbove(messages, c) ==
    \E i \in 1..Len(CountersAbove(messages, c)) :
        CountersAbove(messages, c)[i] # c + i

\* C1: for every peer the counters stored in its log are exactly 1..N, with
\* no gap and no duplicate, whatever appends and deliveries have run
C1_CountersExactlyOneToN ==
    \A p \in Peers : /\ CountersOf(db, p) = 1..Len(LogOf(db, p))
                     /\ Cardinality(CountersOf(db, p)) = Len(LogOf(db, p))

\* C3: a batch whose part above the committed counter C is not contiguous is
\* rejected as a whole: no row is stored, no counter moves, and the reply is
\* MessageAccept(C) followed by end of stream
C3_NonContiguousBatchRejected ==
    [][(/\ Busy
        /\ stream'.st = "done"
        /\ NonContiguousAbove(stream.messages, cur_counter[stream.peer_id]))
       => (/\ db' = db
           /\ cur_counter' = cur_counter
           /\ stream'.total = 0
           /\ stream'.out = AcceptThenEof(cur_counter[stream.peer_id]))]_vars

\* C3 witness: a batch was rejected for its counters at a log that holds one
\* entry, and the reply reported 1
C3_Witness ==
    /\ stream.st = "done"
    /\ stream.res = "counter"
    /\ stream.out = AcceptThenEof(1)
    /\ \E p \in Peers : CountersOf(db, p) = {1} /\ cur_counter[p] = 1

\* C4: a batch whose counters are all at or below the committed counter C
\* succeeds and changes nothing: rows, counters, the global order counter,
\* index rows, events and broadcast tasks stay as they were
C4_AppliedBatchIsNoOp ==
    [][(/\ Busy
        /\ stream'.st = "done"
        /\ \A i \in 1..Len(stream.messages) :
              stream.messages[i].counter <= cur_counter[stream.peer_id])
       => (/\ stream'.res = "ok"
           /\ UNCHANGED <<db, cur_counter, cnt, indexed, events, tasks>>)]_vars

\* C4 witness: a two-entry batch was answered with success, nothing of it
\* was stored, and the log already held two entries
C4_Witness ==
    /\ stream.st = "done"
    /\ stream.res = "ok"
    /\ stream.n = 2
    /\ stream.total = 0
    /\ stream.out = AcceptThenEof(2)
    /\ \E p \in Peers : CountersOf(db, p) = {1, 2}

\* C5: every Messages request whose attached identity (if any) decodes is
\* answered with exactly one MessageAccept carrying the committed counter of
\* that peer's log after the apply attempt, followed by end of stream
C5_AlwaysOneAccept ==
    [][(/\ Busy
        /\ stream.ident # "invalid"
        /\ stream'.st = "done")
       => stream'.out = AcceptThenEof(GetHighestCounter(db', stream.peer_id))]_vars

----------------------------------------------------------------------------
(* Properties of the CompareRequest handler.                               *)

\* C10: the CompareResponse lists, each once, exactly the peer ids of the
\* callee's logs for which the request has no entry or an entry with a
\* counter below the callee's; logs at which the caller is level or ahead
\* are left out
C10_CompareListsBehindOrUnknown ==
    stream.st = "answered" =>
        LET payload == stream.compare_payload
            resp == stream.out[1].peer_ids
            Entries(p) == {i \in 1..Len(payload) : payload[i].peer_id = p}
            expected == {p \in GetPeers(db) :
                            \/ Entries(p) = {}
                            \/ \E i \in Entries(p) : payload[i].counter < cur_counter[p]}
        IN  /\ {resp[i] : i \in 1..Len(resp)} = expected
            /\ \A i, j \in 1..Len(resp) : resp[i] = resp[j] => i = j
            /\ stream.out[2] = [t |-> "EOF"]

\* C10 witness: the callee holds two entries of A and one of B; the request
\* is level on A and has no entry for B; the response names B only
C10_Witness ==
    /\ stream.st = "answered"
    /\ cur_counter = [A |-> 2, B |-> 1]
    /\ stream.compare_payload = <<[peer_id |-> "A", counter |-> 2]>>
    /\ stream.out[1].peer_ids = <<"B">>

----------------------------------------------------------------------------
(* Properties of the peer pool.                                            *)

\* the get calls for peer id p that are in position pc
CallsAt(p, pc) == {c \in 1..MaxCalls : calls[c].pc = pc /\ calls[c].peer_id = p}

\* the sessions returned so far by get calls for peer id p
Returned(p) == {calls[c].res : c \in {d \in CallsAt(p, "done") : calls[d].res # 0}}

\* the sessions stored under peer id p that have died
DeadFor(p) == {s \in 1..Len(sessions) : sessions[s].peer_id = p /\ ~sessions[s].alive}

\* the live sessions the pool holds for peer id p in a table
LiveIn(t, p) == {e[2] : e \in LiveEntries(t, p)}

\* C7 as stated: the get calls for a peer id cause at most one dial, no two
\* dials for it are in progress at once, and the calls return one session
C7_AtMostOneDial ==
    \A p \in PoolPeers :
        /\ dials[p] <= 1
        /\ Cardinality(CallsAt(p, "dialing")) <= 1
        /\ Cardinality(Returned(p)) <= 1

\* C7: no two dials for a peer id are in progress at once; the dials for it
\* number at most one more than its failed dials and its dead sessions; and
\* when its one dial succeeded and no session of it died, every call that
\* returned got the dialled session
C7_DialsSerialised ==
    \A p \in PoolPeers :
        /\ Cardinality(CallsAt(p, "dialing")) <= 1
        /\ dials[p] <= 1 + dial_fails[p] + Cardinality(DeadFor(p))
        /\ (dials[p] = 1 /\ dial_fails[p] = 0 /\ DeadFor(p) = {}
            /\ CallsAt(p, "dialing") = {})
           => /\ Cardinality(LiveIn(outgoing, p)) = 1
              /\ Returned(p) = LiveIn(outgoing, p)
              /\ \A c \in CallsAt(p, "done") : calls[c].res # 0

\* C7 witness: every get call was for B and has returned, one dial was made,
\* and all calls hold the same live session
C7_Witness ==
    /\ Cardinality(CallsAt("B", "done")) = MaxCalls
    /\ dials["B"] = 1
    /\ Cardinality(Returned("B")) = 1
    /\ \A c \in CallsAt("B", "done") : calls[c].res # 0 /\ IsAlive(calls[c].res)

C9_DialChecksKey ==
    /\ \A e \in outgoing : sessions[e[2]].key = e[1]
    /\ \A c \in 1..MaxCalls :
          (calls[c].pc = "done" /\ calls[c].res # 0)
             => sessions[calls[c].res].key = calls[c].peer_id

----------------------------------------------------------------------------
(* Properties of the replication of two nodes.                             *)

\* the rows node n stores for peer p
RowsOf(n, p) == {ndb[n][i] : i \in {j \in 1..Len(ndb[n]) : ndb[n][j].peer_id = p}}

\* the two nodes agree on every log: same counter, same entries
Converged ==
    \A p \in Peers : /\ ncur["A"][p] = ncur["B"][p]
                     /\ RowsOf("A", p) = RowsOf("B", p)

\* C2: once the nodes can exchange RPCs and nothing more is authored, the
\* periodic sweeps lead to a state from which on both nodes hold, for every
\* peer, the same counter and the same entries
C2_EventualConvergence == connected ~> []Converged

----------------------------------------------------------------------------
(* Properties of the BatchMessageRequest handler.                          *)

\* C11: the response to BatchMessageRequest{peer_id, their_counter} carries
\* no messages when their_counter is at or above the callee's counter, and
\* otherwise exactly the entries of peer_id with a counter above
\* their_counter, in increasing counter order
C11_BatchResponseAboveCounter ==
    stream.st = "batch_done" =>
        LET p == stream.peer_id
            their == stream.my_counter
            got == stream.out[1].messages
            above == {i \in 1..Len(db) : db[i].peer_id = p /\ db[i].counter > their}
        IN  IF their >= cur_counter[p]
            THEN got = <<>>
            ELSE /\ {got[i] : i \in 1..Len(got)} = {db[i] : i \in above}
                 /\ Len(got) = Cardinality(above)
                 /\ \A i, j \in 1..Len(got) : i < j => got[i].counter < got[j].counter

\* a FileTask has reported that every peer of its list failed
FailureReported(f) ==
    \E i \in 1..Len(to_resolve) :
        to_resolve[i].file_id = f /\ to_resolve[i].failed_peers # <<>>

\* f is wanted again, a download of f is queued or running, a back-off timer
\* for f is armed, or f is in the catalog
Retried(f) ==
    \/ f \in need_resolve
    \/ \E k \in 1..Len(file_tasks) : file_tasks[k].file_id = f
    \/ timers[f] > 0
    \/ f \in CatalogIds

\* C12: after a failed download of f, f is wanted again: at once, with a new
\* download, when a peer remains in peers_have[f], and after the back-off
\* delay when none remains.
C12_FailedDownloadRetried ==
    \A f \in Files : FailureReported(f) ~> Retried(f)

\* the catalog holds a descriptor of f, every indexed row that references f
\* has its file_path, and a Message event with that path was emitted for it
Resolved(f) ==
    /\ f \in CatalogIds
    /\ \A r \in 1..Len(file_rows) :
          file_rows[r].file_id = f =>
              /\ file_rows[r].file_path = GetById(f)
              /\ <<r, GetById(f)>> \in file_events

\* C13: once f is wanted and a reachable peer holds it (P2 holds every file
\* and stays reachable), the catalog eventually holds a descriptor of f and
\* every indexed row that references f, also one indexed while the download
\* ran, has its file_path and its Message event with the path.
C13_WantedFileResolved ==
    \A f \in Files : (f \in need_resolve) ~> [](Resolved(f) /\ index_pending = <<>>)

\* this step is an attempt of a FileTask to download f
DownloadAttempted(f) ==
    \E k \in 1..Len(file_tasks) :
        /\ file_tasks[k].file_id = f
        /\ file_tasks' # file_tasks
        /\ file_tasks' \in {RemoveAt(file_tasks, k), AfterFailure(file_tasks, k)}

\* this step arms a back-off timer for f or sends the ResolveWant of a failed
\* FileTask for f
RetryScheduled(f) ==
    \/ timers'[f] > timers[f]
    \/ /\ Len(to_resolve') = Len(to_resolve) + 1
       /\ to_resolve'[Len(to_resolve')].file_id = f
       /\ to_resolve'[Len(to_resolve')].failed_peers # <<>>

\* C14: once the catalog holds a descriptor of f, no step attempts a download
\* of f, arms a back-off timer for f or sends a ResolveWant of a failed
\* download of f.
C14_ResolvedIsSink ==
    [][\A f \in Files :
          f \in CatalogIds => ~DownloadAttempted(f) /\ ~RetryScheduled(f)]_vars

\* the entries this step appended to the messages table
NewEntries == SubSeq(db', Len(db) + 1, Len(db'))

\* C15: a step that appends entries of the local peer's own append enqueues
\* one MessageTask with exactly the new entries for every peer with a live
\* session and nothing else; a step that serves a batch of another peer's
\* log enqueues no task.
C15_BroadcastOwnAppendsOnly ==
    [][/\ (Cardinality(pending') < Cardinality(pending) /\ db' # db) =>
            tasks' = tasks \cup {[peer_id |-> to, messages |-> NewEntries] :
                                    to \in CurrentPeers}
       /\ (Cardinality(pending') < Cardinality(pending) /\ db' = db) =>
            tasks' = tasks
       /\ (Busy /\ stream'.st = "done" /\ stream.peer_id # Me) =>
            tasks' = tasks]_vars

\* an own append was broadcast to two live peers and a batch of another
\* peer's log was stored
C15_Witness ==
    /\ \E t1 \in tasks, t2 \in tasks :
          t1.peer_id # t2.peer_id /\ t1.messages = t2.messages
    /\ \E i \in 1..Len(db) : db[i].peer_id # Me

\* C16: a broadcast Messages request carries the identity record of the
\* author exactly when its entries include the entry with counter 1.
C16_IdentityIffCounterOne ==
    \A r \in sent :
        r.req.peer.present <=> (\E i \in 1..Len(r.req.messages) :
                                    r.req.messages[i].counter = 1)

\* node n runs a BatchRequestTask that pulls with my_counter = 0 from a
\* callee that holds the identity record of the log's author
PullsFromZero(n) ==
    /\ connected
    /\ queue[n] # <<>>
    /\ Head(queue[n]).kind = "batch"
    /\ Head(queue[n]).counter = 0
    /\ Head(queue[n]).repo_id \in nids[Head(queue[n]).peer_id]
    /\ queue'[n] = Tail(queue[n])

SeqRange(q) == {q[i] : i \in 1..Len(q)}

\* C18: the FileWantResponse written for a request with ids R lists exactly
\* the ids of R that are in the callee's catalog, and EOF follows it.
C18_WantResponseIsIntersection ==
    (stream.st = "want_done" /\ stream.out # <<>>) =>
        /\ Len(stream.out) = 2
        /\ stream.out[1].t = "FileWantResponse"
        /\ SeqRange(stream.out[1].file_id) = SeqRange(stream.file_id) \cap CatalogIds
        /\ stream.out[2].t = "EOF"

\* a request that names a catalogued id and an id the callee does not hold
C18_Witness ==
    /\ stream.st = "want_done"
    /\ stream.out # <<>>
    /\ stream.out[1].file_id # <<>>
    /\ SeqRange(stream.out[1].file_id) # SeqRange(stream.file_id)

\* the chunks of the first k frames of q, concatenated
RECURSIVE ChunksOf(_, _)
ChunksOf(q, k) ==
    IF k = 0 THEN <<>>
    ELSE ChunksOf(q, k - 1) \o (IF q[k].t = "EOF" THEN <<>> ELSE q[k].chunk)

Uploading == stream.st \in {"upload", "upload_done", "upload_failed"}

\* the number of frames of the stream that come before the final frame
DataFrames == IF stream.st = "upload_done" THEN Len(stream.out) - 2
              ELSE Len(stream.out)

\* C19: the frames written for a FileDownloadRequest are data frames with
\* last_chunk = false, each of at most the buffer length, whose chunks are
\* the bytes of the file in file order; a completed upload ends with one
\* frame with an empty chunk and last_chunk = true and then EOF, nothing
\* follows EOF, and the chunks together are the file.
C19_UploadFrames ==
    Uploading =>
        /\ \A i \in 1..DataFrames :
              /\ stream.out[i].t = "FileDownloadResponse"
              /\ ~stream.out[i].last_chunk
              /\ Len(stream.out[i].chunk) <= BufferLen
        /\ ChunksOf(stream.out, DataFrames) = SubSeq(stream.file, 1, stream.pos)
        /\ stream.st = "upload_done" =>
              /\ DataFrames >= 0
              /\ stream.out[DataFrames + 1] = FinalFrame
              /\ stream.out[DataFrames + 2] = [t |-> "EOF"]
              /\ ChunksOf(stream.out, Len(stream.out)) = stream.file

\* a file longer than the buffer was uploaded completely, in several frames
C19_Witness ==
    /\ stream.st = "upload_done"
    /\ Len(stream.file) > BufferLen
    /\ DataFrames >= 2

\* the workers that are running a task
Executing == {w \in 1..WorkerCount : workers[w] > 0}

\* C20: at most worker_count tasks are executing, no task is held by two
\* workers, a task is started at most once (it is not started again after
\* its run failed or timed out), and every enqueued task is eventually
\* started.
C20_EachTaskRunsOnce ==
    /\ [](/\ Cardinality(Executing) <= WorkerCount
          /\ \A v \in Executing, w \in Executing : workers[v] = workers[w] => v = w
          /\ \A id \in 1..Len(ran) :
                /\ ran[id] <= 1
                /\ Len(ended[id]) <= ran[id]
                /\ (\E i \in 1..Len(rq) : rq[i] = id) => ran[id] = 0)
    /\ \A id \in 1..MaxTasks : (Len(ran) >= id) ~> (Len(ran) >= id /\ ran[id] = 1)

\* every worker is busy, a task waits in the channel, and a task whose run
\* timed out or failed has not been started again
C20_Witness ==
    /\ Cardinality(Executing) = WorkerCount
    /\ rq # <<>>
    /\ \E id \in 1..Len(ran) :
          /\ ended[id] \in {<<"timeout">>, <<"err">>}
          /\ ran[id] = 1

\* a run that ended with an error or by the timeout
Failed(id) ==
    /\ id <= Len(ended)
    /\ \E k \in 1..Len(ended[id]) : ended[id][k] \in {"err", "timeout"}

\* C21: a worker whose task ended, with Ok, with an error or by the timeout,
\* waits on the channel again; and so a task enqueued when some run has
\* already failed or timed out is still eventually started
C21_FailureKeepsWorker ==
    /\ [][\A w \in 1..WorkerCount :
            (workers[w] > 0 /\ workers'[w] # workers[w]) => workers'[w] = 0]_vars
    /\ \A id \in 1..MaxTasks :
          (Len(ran) >= id /\ \E j \in 1..Len(ran) : Failed(j))
              ~> (Len(ran) >= id /\ ran[id] >= 1)

\* more runs have failed or timed out than there are workers, so some worker
\* took a task after a failed run, and every enqueued task has been started
C21_Witness ==
    /\ Cardinality({id \in 1..Len(ran) : Failed(id)}) > WorkerCount
    /\ \A id \in 1..Len(ran) : ran[id] = 1
    /\ Len(ran) = MaxTasks

\* C22: a download task of f that was cancelled by the worker's timeout is
\* not run again by the queue, but f returns to the wanted state (in
\* need_resolve, under a back-off timer, or a new download queued) or is in
\* the catalog.
C22_CancelledDownloadRetried ==
    \A f \in Files : (f \in dropped) ~> Retried(f)

\* C23: at most one invocation of the scheduler's action is in flight, an
\* invocation starts only when none is in flight, and a tick that is due
\* after an invocation returned an error still invokes the action.
C23_SchedulerSequential ==
    /\ [](sched.running <= 1)
    /\ [][sched'.running > sched.running => sched.running = 0]_vars
    /\ \A n \in 1..(MaxRuns - 1) :
          (/\ Len(sched.log) = n
           /\ sched.log[n] = "err"
           /\ sched.running = 0
           /\ sched.due > 0)
              ~> (Len(sched.log) + sched.running > n)

\* an invocation is in flight after an earlier one returned an error, while
\* a further tick is already due
C23_Witness ==
    /\ sched.running = 1
    /\ sched.due > 0
    /\ \E k \in 1..Len(sched.log) : sched.log[k] = "err"

\* C24: when the dialer and the acceptor have both completed the handshake,
\* they hold the same symmetric key and each holds the other's long-term
\* verifying key as their_pub_key; and a side has completed only with a
\* signature over the transcript that verifies under the key presented.
C24_HandshakeAgreement ==
    /\ (hs.dpc = "done" /\ hs.apc = "done") =>
          /\ hs.d_key = hs.a_key
          /\ hs.d_their = "A"
          /\ hs.a_their = "D"
    /\ hs.dpc = "done" =>
          Verify(hs.d_their, Transcript(Pub(DSecret), hs.d_eph), hs.d_sig)
    /\ hs.apc = "done" =>
          Verify(hs.a_their, Transcript(hs.a_eph, Pub(ASecret)), hs.a_sig)

\* the written plaintexts that are not empty, in order
Plaintexts ==
    SelectSeq([i \in 1..Len(es.written) |-> [w |-> i, len |-> es.written[i]]],
              LAMBDA x : x.len > 0)

\* C25: when no byte is altered, the reader never fails and what it has
\* obtained is the concatenation of the written plaintexts, in order, up to
\* the point reached (all of it once every frame is read); no byte of the
\* plaintext of an altered frame is obtained, and an altered frame that was
\* read made the read fail.
C25_StreamDelivers ==
    /\ es.changed = 0 =>
          /\ es.read_state # "error"
          /\ Len(es.out) <= Len(Plaintexts)
          /\ \A k \in 1..Len(es.out) :
                /\ es.out[k].w = Plaintexts[k].w
                /\ es.out[k].n <= Plaintexts[k].len
                /\ k < Len(es.out) => es.out[k].n = Plaintexts[k].len
          /\ (es.wire = <<>> /\ es.left = 0) =>
                /\ Len(es.out) = Len(Plaintexts)
                /\ \A k \in 1..Len(es.out) : es.out[k].n = Plaintexts[k].len
    /\ \A k \in 1..Len(es.out) : ~es.out[k].altered

\* the rows of the peer table that hold a signing key
SigningRows == {p \in Peers : peer_db[p].present /\ peer_db[p].signing}

\* C26: the peer table has exactly one row with a signing key, the row of the
\* local identity, and a row once stored is not replaced by an identity
\* record attached to a later request.
C26_LocalIdentityKept ==
    /\ [](SigningRows = {Me})
    /\ [][\A p \in Peers : peer_db[p].present => peer_db'[p] = peer_db[p]]_vars

\* C27: before the first add_own_message the order counter is the highest
\* order of the persisted entries, zero when there are none; on a store that
\* was empty at start-up the first add_own_message, once saved, has stored
\* an entry with counter 1 and order 1.
C27_StartupCounter ==
    /\ assigned = <<>> => cnt = SeqMaxOrder(db, 0)
    /\ (Len(assigned) = 1 /\ pending = {} /\ faults = 0 /\ Len(db) = 1) =>
          /\ db[1].peer_id = Me
          /\ db[1].counter = 1
          /\ db[1].order = 1

\* the first add_own_message of a node started on an empty store was saved
C27_Witness ==
    /\ Len(assigned) = 1
    /\ pending = {}
    /\ faults = 0
    /\ Len(db) = 1

\* rows r and q are stored under the same (peer_id, counter)
SameKey(r, q) == r.peer_id = q.peer_id /\ r.counter = q.counter

\* C28: every step keeps the stored rows as they are and in place (the log
\* only grows at its end), and adds no row under a (peer_id, counter) that
\* already holds an entry: what is stored under a key never changes.
C28_LogImmutable ==
    [][/\ Len(db') >= Len(db)
       /\ SubSeq(db', 1, Len(db)) = db
       /\ \A i \in (Len(db) + 1)..Len(db'), j \in 1..Len(db) :
             ~SameKey(db'[i], db[j])]_vars

\* a Messages request whose entries all claim counters the log has passed
\* (a re-delivery, or other content under stored counters) was answered
\* while both logs hold entries
C28_Witness ==
    /\ stream.st = "done"
    /\ stream.res = "ok"
    /\ stream.n > 0
    /\ stream.total = 0
    /\ \A p \in Peers : LogOf(db, p) # <<>>

\* C29: between appends the in-memory counter of every repository is the
\* highest counter persisted for its peer, 0 when the log is empty; so an
\* append that failed with a store error has left the counter where it was.
C29_CounterMatchesStore ==
    \A p \in Peers : cur_counter[p] = GetHighestCounter(db, p)

\* C30: the order an add_own_message call is assigned is greater than the
\* order assigned to every earlier call, whether or not that call has been
\* saved yet, and greater than every order the manager has recorded from a
\* stored entry; so no two calls are assigned the same order.
C30_AssignedOrderAboveAll ==
    [][Len(assigned') > Len(assigned) =>
          LET new == assigned'[Len(assigned')]
          IN  /\ Len(assigned') = Len(assigned) + 1
              /\ \A i \in 1..Len(assigned) : assigned[i] < new
              /\ \A i \in 1..Len(db) : db[i].order < new
              /\ cnt < new]_vars

\* two calls were assigned orders, and a batch stored between them had
\* raised the order counter past the first call's order
C30_Witness ==
    /\ Len(assigned) = 2
    /\ assigned[2] > assigned[1] + 1
    /\ \E i \in 1..Len(db) : db[i].peer_id # Me /\ db[i].order > assigned[1]

\* a step in which node n runs the CompareStateTask at the head of its queue:
\* the task leaves the queue and BatchRequestTasks are appended
CompareStep(n) ==
    /\ queue[n] # <<>>
    /\ Head(queue[n]).kind = "compare"
    /\ Len(queue'[n]) >= Len(queue[n]) - 1
    /\ SubSeq(queue'[n], 1, Len(queue[n]) - 1) = Tail(queue[n])
    /\ \A i \in Len(queue[n])..Len(queue'[n]) : queue'[n][i].kind = "batch"

\* the tasks that step appended
Enqueued(n) == SubSeq(queue'[n], Len(queue[n]), Len(queue'[n]))

\* the peer ids of the callee's CompareResponse to the task at the head of
\* n's queue
ReturnedIds(n) ==
    LET task == Head(queue[n])
        callee == task.peer_id
    IN  {p \in GetPeers(ndb[callee]) :
            Listed([peer_id |-> p, counter |-> ncur[callee][p]],
                   task.repo_states, FALSE)}

\* the counter the repo states of a CompareStateTask hold for log p, 0 when
\* they have no entry for it
SnapshotCounter(task, p) ==
    IF \E i \in DOMAIN task.repo_states : task.repo_states[i].peer_id = p
    THEN (CHOOSE st \in {task.repo_states[i] : i \in DOMAIN task.repo_states} :
              st.peer_id = p).counter
    ELSE 0

\* the counter node n holds for log p when the response arrives, 0 for a log
\* it has no entry of
CurrentCounter(n, p) == IF p \in GetPeers(ndb[n]) THEN ncur[n][p] ELSE 0

\* for every log, the tasks appended for it: one towards the callee with
\* counter Carried(n, p) if the callee returned it, none otherwise
OnePerReturned(n, Carried(_, _)) ==
    \A p \in Peers :
        LET mine == {i \in DOMAIN Enqueued(n) : Enqueued(n)[i].repo_id = p}
        IN  IF p \in ReturnedIds(n)
            THEN /\ Cardinality(mine) = 1
                 /\ \A i \in mine :
                       /\ Enqueued(n)[i].peer_id = Head(queue[n]).peer_id
                       /\ Enqueued(n)[i].counter = Carried(n, p)
            ELSE mine = {}

SnapshotCarried(n, p) == SnapshotCounter(Head(queue[n]), p)

\* C31 (as stated): on a CompareResponse exactly one BatchRequestTask is
\* enqueued towards the responding peer for each returned peer id, carrying
\* the counter this node holds for that log at that time (0 for a log it does
\* not know), and none for a log that was not returned.
C31_BatchCarriesCurrentCounter ==
    [][\A n \in Peers : CompareStep(n) => OnePerReturned(n, CurrentCounter)]_vars

\* C31 (amended): on a CompareResponse exactly one BatchRequestTask is
\* enqueued towards the responding peer for each returned peer id, carrying
\* the counter that the repo states of the CompareStateTask hold for that log
\* (the states read when the periodic action created the task) and 0 for a
\* log those states do not list; none is enqueued for a log not returned.
C31_BatchCarriesSnapshotCounter ==
    [][\A n \in Peers : CompareStep(n) => OnePerReturned(n, SnapshotCarried)]_vars

\* a node's queue holds a BatchRequestTask with a counter above 0 (a log its
\* repo states listed) and one whose counter the node has since passed
C31_Witness ==
    \E n \in Peers : \E i, j \in DOMAIN queue[n] :
        /\ queue[n][i].kind = "batch"
        /\ queue[n][j].kind = "batch"
        /\ queue[n][i].counter > 0
        /\ queue[n][j].counter < ncur[n][queue[n][j].repo_id]

\* call c does the lookup of PeerPool::get in this step
LookupStep(c) == calls[c].pc = "waiting" /\ calls'[c].pc # "waiting"

\* call c is a current_peers call that returns in this step
ListStep(c) == calls[c].pc = "idle" /\ calls'[c].pc = "listed"

\* neither call hands out a dead session: a get that ends in its lookup
\* returns a live session of the peer id asked for, and current_peers lists
\* the peer ids that have a live session in one of the tables
OnlyLiveHandedOut(c) ==
    /\ (LookupStep(c) /\ calls'[c].pc = "done") =>
          /\ calls'[c].res \in 1..Len(sessions)
          /\ IsAlive(calls'[c].res)
          /\ sessions[calls'[c].res].peer_id = calls[c].peer_id
    /\ ListStep(c) =>
          calls'[c].peers =
            {q \in PoolPeers : \E e \in outgoing \cup incoming :
                                  e[1] = q /\ IsAlive(e[2])}

\* C32 (as stated): once a session is dead, the next get for its peer id and
\* the next current_peers call leave no dead session of that peer (for
\* current_peers: of any peer) in the pool's tables, and neither call returns
\* a dead session or lists a peer without a live session.
C32_DeadEvictedByGetAndList ==
    [][\A c \in 1..MaxCalls :
          /\ OnlyLiveHandedOut(c)
          /\ LookupStep(c) =>
                \A e \in outgoing' \cup incoming' :
                    e[1] = calls[c].peer_id => sessions'[e[2]].alive
          /\ ListStep(c) =>
                \A e \in outgoing' \cup incoming' : sessions'[e[2]].alive]_vars

\* C32 (amended): get(peer_id) removes the dead entries it comes across: a
\* dead outgoing entry of the peer always, a dead incoming entry of the peer
\* unless the outgoing one was alive and was returned; before it dials,
\* neither table has an entry of the peer.  current_peers removes nothing, it
\* leaves both tables as they are.  Neither call returns a dead session or
\* lists a peer without a live session.
C32_DeadEvictedByGetOnly ==
    [][\A c \in 1..MaxCalls :
          /\ OnlyLiveHandedOut(c)
          /\ LookupStep(c) =>
                LET p == calls[c].peer_id
                IN  /\ \A e \in outgoing' : e[1] = p => sessions'[e[2]].alive
                    /\ (\A e \in outgoing : e[1] # p) =>
                          \A e \in incoming' : e[1] = p => sessions'[e[2]].alive
                    /\ calls'[c].pc = "dialing" =>
                          \A e \in outgoing' \cup incoming' : e[1] # p
                    /\ \A e \in (outgoing \cup incoming) \ (outgoing' \cup incoming') :
                          e[1] = p /\ ~IsAlive(e[2])
          /\ ListStep(c) =>
                /\ outgoing' = outgoing
                /\ incoming' = incoming]_vars

\* a current_peers call has returned without the peer of a dead session, and
\* a get has returned a live session after the
\* dead one of its peer was removed
C32_Witness ==
    /\ \E c \in 1..MaxCalls :
          /\ calls[c].pc = "listed"
          /\ \E s \in 1..Len(sessions) :
                ~IsAlive(s) /\ sessions[s].peer_id \notin calls[c].peers
    /\ \E c \in 1..MaxCalls :
          /\ calls[c].pc = "done"
          /\ calls[c].res # 0
          /\ IsAlive(calls[c].res)
          /\ \E s \in 1..Len(sessions) :
                /\ ~IsAlive(s)
                /\ sessions[s].peer_id = calls[c].peer_id
                /\ <<sessions[s].peer_id, s>> \notin outgoing \cup incoming

\* C33: every open_stream call returns, whatever the accept loop and the
\* other callers do meanwhile; and an accept loop that let go of the session
\* for a call is back in its select, holding the session, once calls stop
\* (or has ended because the session did).
C33_OpenStreamReturns ==
    /\ \A o \in 1..OpenerCount : (pr.op[o] # "idle") ~> (pr.op[o] = "idle")
    /\ (pr.loop \in {"woken", "dropped", "open_lock"}) ~> (InSelect \/ pr.loop = "ended")

\* a call waits for the session while the accept loop holds it in select,
\* and another call waits for open_lock
C33_Witness ==
    /\ InSelect
    /\ pr.accepted > 0
    /\ \E o, o2 \in 1..OpenerCount :
          /\ pr.op[o] = "session"
          /\ pr.session.q = <<o>>
          /\ pr.op[o2] = "open_lock"
          /\ pr.open_lock.q = <<o2>>

\* the end-of-stream sentinel: tag 0x02 with length 0xFFFFFFFF
IsEofSentinel(f) == f.tag = 2 /\ f.len = <<255, 255, 255, 255>>

\* a response frame: tag 0x02 with another length
IsResponseFrame(f) == f.tag = 2 /\ f.len # <<255, 255, 255, 255>>

\* the callee writes nothing before it has read a request frame, nothing
\* after the sentinel, and read_response returns None for the sentinel only
FramesInOrder ==
    /\ rpc.down # <<>> =>
          /\ rpc.callee \notin {"read", "handle"}
          /\ rpc.up[1].tag = 1
    /\ \A i \in 1..(Len(rpc.down) - 1) : ~IsEofSentinel(rpc.down[i])
    /\ \A i \in 1..Len(rpc.down) : rpc.callee # "done" => ~IsEofSentinel(rpc.down[i])
    /\ \A i \in 1..rpc.rd : (rpc.got[i] = "none") <=> IsEofSentinel(rpc.down[i])

\* the callee has written exactly one response frame and then the sentinel
OneResponseThenEof ==
    /\ Len(rpc.down) = 2
    /\ IsResponseFrame(rpc.down[1])
    /\ IsEofSentinel(rpc.down[2])

C35_FrameLenExact ==
    [][Len(es'.written) > Len(es.written) =>
          LET n == es'.written[Len(es'.written)]
              f == es'.wire[Len(es'.wire)]
          IN  /\ Len(es'.written) = Len(es.written) + 1
              /\ Len(es'.wire) = Len(es.wire) + 1
              /\ f.frame_len = 12 + n + 16
              /\ f.frame_len = f.size]_vars

----------------------------------------------------------------------------
(* Properties of the indexer.                                              *)

\* C36: a step that stores new entries adds one indexed row for each of
\* them, in the order stored, and emits one event for each; a step that
\* stores nothing adds no row and emits no event
C36_StoredEntriesIndexed ==
    [][/\ (db' # db) =>
            /\ indexed' = IndexRows(indexed, NewEntries)
            /\ events' = events + Len(NewEntries)
       /\ (db' = db) => UNCHANGED <<indexed, events>>]_vars

----------------------------------------------------------------------------
(* Properties of the download.                                             *)

\* the step records a success: the file appears under its final name, or
\* the descriptor is written, or a ResolveResult is sent
RecordsSuccess ==
    \/ dl'.renamed /\ ~dl.renamed
    \/ dl'.desc /\ ~dl.desc
    \/ dl'.results > dl.results

\* the step reads from a stream that broke or delivers an unexpected
\* message before the sentinel
BrokenAttempt ==
    /\ dl.pc = "read"
    /\ dl' # dl
    /\ dl'.last \in {"closed", "MessageAccept", "NoVariant"}

\* C37: a download is recorded as succeeded only by the step that follows
\* the EOF sentinel, and the renamed file holds the chunks of that attempt
\* in order; an attempt whose stream broke or delivered an unexpected
\* message before the sentinel writes no descriptor, sends no ResolveResult,
\* renames nothing and leaves no staging file
C37_SuccessOnlyAfterEof ==
    [][/\ RecordsSuccess => (dl.last = "EOF" /\ dl'.file = dl.data)
       /\ (dl'.results > dl.results) => (dl'.desc /\ dl'.renamed)
       /\ BrokenAttempt =>
            /\ ~dl'.staging /\ dl'.pc \in {"get", "done"}
            /\ dl'.desc = dl.desc
            /\ dl'.results = dl.results
            /\ dl'.renamed = dl.renamed /\ dl'.file = dl.file]_vars

\* the first peer's stream broke after a chunk had been written, the second
\* peer's stream was read to the sentinel and the download recorded
C37_Witness ==
    /\ dl.results = 1 /\ dl.desc /\ dl.renamed /\ ~dl.staging
    /\ dl.file # <<>>
    /\ dl.ends = <<[why |-> "closed", n |-> 1]>>

----------------------------------------------------------------------------
(* Properties of the resolver's downloads.                                 *)

\* C38: at any time at most one FileTask of a file id is queued or running
C38_OneFileTaskPerFile ==
    \A f \in Files :
        Cardinality({k \in 1..Len(file_tasks) : file_tasks[k].file_id = f}) <= 1

----------------------------------------------------------------------------
(* Properties of the manager's locks.                                      *)

\* C39: every operation that is called on the manager returns: whatever
\* operations are called and however they interleave, from some point on
\* none of them is running or waiting for a lock (an operation that has
\* returned stays returned, so an operation that never returns would be
\* running for ever)
C39_ManagerOpsComplete ==
    <>[](\A o \in 1..ManagerOps : mg.op[o] \in {IdleOp, DoneOp})

\* an append holds a repository and waits for counter_lock, which an
\* add_own_message holds, while a third operation waits for that repository
C39_Witness ==
    \E a, b, c \in 1..ManagerOps :
        /\ mg.locks["counter"].owner = a /\ mg.op[a].prog = AddOwnProgram(TRUE)
        /\ mg.locks["repoA"].owner = b /\ mg.op[b].wait
        /\ mg.locks["counter"].q = <<b>>
        /\ mg.locks["repoA"].q = <<c>>

----------------------------------------------------------------------------
(* Properties of the reading end at the end of the transport.              *)

\* C40: an iteration of poll_read that finds the transport at its end ends
\* the call: with a clean end of stream when no byte of a frame is
\* buffered, with an error when the stream ended inside the length bytes or
\* inside a frame
C40_ReadEndsAtEof ==
    [][(er.pc = "loop" /\ NeedsMore(er) /\ er.wire = 0) =>
          /\ er'.pc = "idle"
          /\ er'.ret = IF er.read_state = "length" /\ er.read_buffer = 0
                       THEN "eof" ELSE "error"]_vars

====
